---- MODULE Spec2Model ----
(***************************************************************************)
(* Model of the MODIS level-1 runner (pytroll-modis-runner).               *)
(*                                                                         *)
(* Seven specifications are defined over the same variables:               *)
(*   Spec          the runner: the control loop of modis_live_runner, the  *)
(*                 threading.Timer threads running reset_job_registry and  *)
(*                 the pool tasks, interleaved at the granularity of one   *)
(*                 access to a shared dictionary;                          *)
(*   SpecCalls     the registry functions of modis_runner/utils.py and     *)
(*                 reset_job_registry applied one call at a time, as the   *)
(*                 unit tests apply them;                                  *)
(*   SpecPipeline  one admitted scene: the stages of run_terra_aqua_l0l1   *)
(*                 in its pool worker, next to the scene's eviction timer; *)
(*   SpecPool      the pool of six worker processes under a stream of      *)
(*                 admitted scenes;                                        *)
(*   SpecAncillary the freshness check and the refresh of utcpole.dat and  *)
(*                 leapsec.dat, at startup and at the end of pipelines;    *)
(*   SpecFunctions get_geo_command_line_list, check_message and            *)
(*                 get_config_yaml applied one call at a time;             *)
(*   SpecRun       one run of run_terra_aqua_l0l1 and the return of its    *)
(*                 worker, with weak fairness of the stages: every         *)
(*                 external process that is started terminates.            *)
(*                                                                         *)
(* Strings that the code matches by prefix and suffix are sequences of     *)
(* tokens; the empty string is the empty sequence.                         *)
(***************************************************************************)
EXTENDS Integers, Sequences, FiniteSets, TLC

VARIABLES
    eos_files,   \* readiness registry: scene key -> (role -> file path)
    jobs_dict,   \* job registry: scene key -> admission timestamp
    pc,          \* position of the control loop of modis_live_runner
    msg,         \* the notification the control loop is handling
    status,      \* the control loop's local: result of ready2run
    clock,       \* number of datetime.utcnow() admissions made so far
    timers,      \* the threading.Timer threads started, in start order
    tasks,       \* the tasks handed to the pool, in dispatch order
    call,        \* SpecCalls: the last function application and its result
    scene,       \* SpecPipeline: the scene and options given to run_terra_aqua_l0l1
    ppc,         \* position of run_terra_aqua_l0l1
    disk,        \* the output paths that exist on disk
    pending,     \* paths a stage that has not terminated may still write
    l1b_files,   \* the local list l1b_files of run_terra_aqua_l0l1
    publish_q,   \* the messages put on publisher_q, in order
    stages,      \* the external processes run so far, with their return codes
    etc,         \* SpecAncillary: the links and the files of options['leapsec_dir']
    upd          \* the callers of the freshness check and their positions

\* the state of one run_terra_aqua_l0l1 execution
pipe_vars == <<scene, ppc, disk, pending, l1b_files, publish_q, stages>>

\* the ancillary files and the processes that check and refresh them
anc_vars == <<etc, upd>>

vars == <<eos_files, jobs_dict, pc, msg, status, clock, timers, tasks, call, pipe_vars,
          anc_vars>>

----------------------------------------------------------------------------
\* Bounds of the model.

\* the control loop stops taking notifications after MaxJobs admissions
MaxJobs == 2

----------------------------------------------------------------------------
\* Constants of the program.

TERRA == "EOS-Terra"
AQUA == "EOS-Aqua"
EOS_SATELLITES == {TERRA, AQUA}

MODISFILE_TERRA_PRFX == <<"P0420064AAAAAAAAAAAAAA">>
MODISFILE_AQUA_PRFX == <<"P1540064AAAAAAAAAAAAAA">>
PACKETFILE_AQUA_PRFX == <<"P154095715409581540959">>

\* options.get(<key>, <default>) of ready2run with the keys left unset
modisfile_terra_prfx == MODISFILE_TERRA_PRFX
modisfile_terra_postfx == <<"001.PDS">>
modisfile_aqua_prfx == MODISFILE_AQUA_PRFX
packetfile_aqua_prfx == PACKETFILE_AQUA_PRFX
modisfile_aqua_postfx == <<"001.PDS">>
packetfile_aqua_postfx == <<"001.PDS">>

----------------------------------------------------------------------------
\* Python values.

\* a dict with no key
EmptyDict == [x \in {} |-> {}]

\* d[k] = v
SetItem(d, k, v) == [x \in DOMAIN d \cup {k} |-> IF x = k THEN v ELSE d[x]]

\* d.pop(k) for a key that is present
PopKey(d, k) == [x \in DOMAIN d \ {k} |-> d[x]]

\* values of the job registry: None, or a datetime (the n-th utcnow())
NoneValue == [type |-> "NoneType", val |-> 0]
DateTime(n) == [type |-> "datetime", val |-> n]

\* bool(v) as the `and` of scene_processed_recently evaluates it
Truthy(v) == v.type # "NoneType"

\* str.startswith / str.find(p) == 0
StartsWith(s, p) == Len(p) <= Len(s) /\ SubSeq(s, 1, Len(p)) = p

\* str.endswith
EndsWith(s, p) == Len(p) <= Len(s) /\ SubSeq(s, Len(s) - Len(p) + 1, Len(s)) = p

\* a sensor field is a string or a list of strings
SensorStr(s) == [islist |-> FALSE, items |-> <<s>>]
SensorList(l) == [islist |-> TRUE, items |-> l]

\* if not isinstance(sensor, list): sensor = [sensor]
AsList(sensor) == sensor.items

\* os.path.split(urlobj.path): a path is <<directory>> \o file name
PathSplit(path) == <<SubSeq(path, 1, 1), Tail(path)>>

----------------------------------------------------------------------------
\* Notifications.

Platforms == {TERRA, AQUA, "NOAA-20"}
Orbits == {16029}
StartTimes == {"202110111943"}

Sensors ==
    {SensorStr("modis"), SensorStr("gbad"), SensorStr("viirs"), SensorList(<<"modis">>)}

FilePrefixes == {MODISFILE_TERRA_PRFX, MODISFILE_AQUA_PRFX, PACKETFILE_AQUA_PRFX}
FilePostfixes == {<<"001.PDS">>, <<"000.PDS">>}

\* urlparse(message_data['uri']).path
Paths == {<<"/tmp">> \o p \o <<"21284194359">> \o s : p \in FilePrefixes, s \in FilePostfixes}

\* msg.data of a notification
Messages ==
    [platform_name : Platforms, orbit_number : Orbits, start_time : StartTimes,
     sensor : Sensors, uri : Paths]

NoMessage ==
    [platform_name |-> "", orbit_number |-> 0, start_time |-> "",
     sensor |-> SensorStr(""), uri |-> <<>>]

\* keyname of modis_live_runner
KeyName(m) == <<m.platform_name, m.orbit_number, m.start_time>>

Keys == {KeyName(m) : m \in Messages}

----------------------------------------------------------------------------
\* modis_runner/utils.py

\* a variant that forgets the test of the value
scene_processed_recently_KeyOnly(job_register, sceneid) ==
    sceneid \in DOMAIN job_register

scene_processed_recently(job_register, sceneid) ==
    sceneid \in DOMAIN job_register /\ Truthy(job_register[sceneid])

\* a variant that starts every call from an empty entry
R2REnsure_Reset(eosfiles, sceneid) ==
    SetItem(eosfiles, sceneid, EmptyDict)

\* if sceneid not in eosfiles: eosfiles[sceneid] = {}
R2REnsure(eosfiles, sceneid) ==
    IF sceneid \notin DOMAIN eosfiles
    THEN SetItem(eosfiles, sceneid, EmptyDict)
    ELSE eosfiles

\* a variant that takes the Terra branch whatever the sensor
R2RBranch_AnySensor(message_data) ==
    IF message_data.platform_name = "EOS-Terra"
    THEN "terra"
    ELSE IF message_data.platform_name = "EOS-Aqua"
            /\ \A i \in 1..Len(AsList(message_data.sensor)) :
                  AsList(message_data.sensor)[i] \in {"modis", "gbad"}
         THEN "aqua"
         ELSE "none"

\* which branch of ready2run a notification takes
R2RBranch(message_data) ==
    IF message_data.platform_name = "EOS-Terra"
       /\ message_data.sensor = SensorStr("modis")
    THEN "terra"
    ELSE IF message_data.platform_name = "EOS-Aqua"
            /\ \A i \in 1..Len(AsList(message_data.sensor)) :
                  AsList(message_data.sensor)[i] \in {"modis", "gbad"}
         THEN "aqua"
         ELSE "none"

TerraMatch(fname) ==
    StartsWith(fname, modisfile_terra_prfx) /\ EndsWith(fname, modisfile_terra_postfx)

AquaMatch(fname) ==
    /\ StartsWith(fname, modisfile_aqua_prfx) \/ StartsWith(fname, packetfile_aqua_prfx)
    /\ EndsWith(fname, modisfile_aqua_postfx) \/ EndsWith(fname, packetfile_aqua_postfx)

\* the notification's file name matches the pattern of its branch, so that
\* ready2run goes on to os.path.exists and to the registry
R2RMatches(message_data) ==
    LET fname == PathSplit(message_data.uri)[2]
    IN  \/ R2RBranch(message_data) = "terra" /\ TerraMatch(fname)
        \/ R2RBranch(message_data) = "aqua" /\ AquaMatch(fname)

\* a variant that records the primary file of either platform only
R2REntry_NoPacket(message_data, entry) ==
    IF R2RBranch(message_data) = "terra"
       \/ StartsWith(PathSplit(message_data.uri)[2], modisfile_aqua_prfx)
    THEN SetItem(entry, "modisfile", message_data.uri)
    ELSE entry

\* the entry of sceneid after the assignments of the matching branch
R2REntry(message_data, entry) ==
    LET path == message_data.uri
        fname == PathSplit(path)[2]
    IN  IF R2RBranch(message_data) = "terra"
        THEN SetItem(SetItem(entry, "modisfile", path), "packetfile", <<>>)
        ELSE LET e1 == IF StartsWith(fname, modisfile_aqua_prfx)
                          /\ EndsWith(fname, modisfile_aqua_postfx)
                       THEN SetItem(entry, "modisfile", path)
                       ELSE entry
             IN  IF StartsWith(fname, packetfile_aqua_prfx)
                    /\ EndsWith(fname, packetfile_aqua_postfx)
                 THEN SetItem(e1, "packetfile", path)
                 ELSE e1

\* eosfiles[sceneid][role] = path, for a sceneid that is a key of eosfiles
R2RRecord(message_data, eosfiles, sceneid) ==
    SetItem(eosfiles, sceneid, R2REntry(message_data, eosfiles[sceneid]))

\* a variant that asks for the primary file only
R2RReady_ModisOnly(eosfiles, sceneid) ==
    "modisfile" \in DOMAIN eosfiles[sceneid]

\* 'modisfile' in eosfiles[sceneid] and 'packetfile' in eosfiles[sceneid]
R2RReady(eosfiles, sceneid) ==
    "modisfile" \in DOMAIN eosfiles[sceneid] /\ "packetfile" \in DOMAIN eosfiles[sceneid]

\* ready2run run without interruption; exists is os.path.exists(urlobj.path)
ready2run(message_data, eosfiles, sceneid, exists) ==
    LET e1 == R2REnsure(eosfiles, sceneid)
    IN  IF R2RMatches(message_data)
        THEN IF ~exists
             THEN [ret |-> FALSE, eosfiles |-> e1]
             ELSE LET e2 == R2RRecord(message_data, e1, sceneid)
                  IN  [ret |-> R2RReady(e2, sceneid), eosfiles |-> e2]
        ELSE [ret |-> R2RReady(e1, sceneid), eosfiles |-> e1]

----------------------------------------------------------------------------
\* bin/seadas_modis_runner.py

\* a variant that forgets the readiness registry
reset_job_registry_JobsOnly(objdict, eosfiles, key) ==
    [objdict |-> IF key \in DOMAIN objdict THEN PopKey(objdict, key) ELSE objdict,
     eosfiles |-> eosfiles]

\* reset_job_registry run without interruption
reset_job_registry(objdict, eosfiles, key) ==
    [objdict |-> IF key \in DOMAIN objdict THEN PopKey(objdict, key) ELSE objdict,
     eosfiles |-> IF key \in DOMAIN eosfiles THEN PopKey(eosfiles, key) ELSE eosfiles]

----------------------------------------------------------------------------
\* run_terra_aqua_l0l1: one execution in a pool worker process.

\* Popen.returncode after poll(): an integer, or None while the process has
\* not terminated
Code(n) == [type |-> "int", val |-> n]
ReturnCodes == {NoneValue, Code(0), Code(1), Code(2)}

\* options['level1b_home'] and the values of options['working_dir']
level1b_home == "/data/level1b"
WorkingDirs == {"/data/work", level1b_home}

\* the scenes handed to the pool with the options that the pipeline reads
Scenes ==
    [platform_name : {TERRA, AQUA}, working_dir : WorkingDirs, apply_destriping : BOOLEAN]

NoScene == [platform_name |-> "", working_dir |-> "", apply_destriping |-> FALSE]

\* mission = 'T' if scene['platform_name'] == TERRA else 'A'
mission == IF scene.platform_name = TERRA THEN "T" ELSE "A"

\* destripe_on
destripe_on == scene.apply_destriping

\* retv[key] = "%s/%s_%s" % (level1b_home, firstpart, lastpart): a path is
\* <<directory, base name>>
retv(key) == <<level1b_home, key>>

\* fname_orig = os.path.join(working_dir, os.path.basename(path))
fname_orig(path) == <<scene.working_dir, path[2]>>

\* the files of retv that the external process of a stage writes into the
\* working directory
StageOutputs(stage) ==
    CASE stage = "l1a" -> {"level1a_file"}
      [] stage = "geo" -> {"geo_file"}
      [] stage = "l1b" -> {"mod021km_file", "mod02hkm_file", "mod02qkm_file"}
      [] OTHER -> {}

\* shutil.move(src, dst)
ShutilMove(d, src, dst) == (d \ {src}) \cup {dst}

\* create_message(mda, filename, level): one file, or a list of files as a dataset
create_message(filename, level, islist) ==
    [level |-> level, mtype |-> IF islist THEN "dataset" ELSE "file", files |-> filename]

\* Popen(cmdl, cwd=working_dir), the output is read to its end, poll(): the
\* return code is `code`; a process that has not terminated may write later
\* the outputs it has not `written` yet
PopenPoll(stage, code, written) ==
    /\ stages' = Append(stages, [stage |-> stage, code |-> code])
    /\ pending' = IF code = NoneValue
                  THEN pending \cup {fname_orig(retv(k)) : k \in StageOutputs(stage) \ written}
                  ELSE pending

\* the disk once the process has written the files `written` into working_dir
DiskWith(written) == disk \cup {fname_orig(retv(k)) : k \in written}

\* a variant that accepts return code 1 as the geolocation stage does
Failed_L1_AcceptOne(code) == code \notin {Code(0), Code(1), NoneValue}
\* modislvl1b_status != 0 and modislvl1b_status is not None
Failed_L1(code) == code # Code(0) /\ code # NoneValue

\* a variant that treats return code 1 as a failure
Failed_Geo_OneFails(code) == code \notin {Code(0), NoneValue}
\* modislvl1b_status not in [0, 1, None]
Failed_Geo(code) == code \notin {Code(0), Code(1), NoneValue}

\* a variant that accepts None as the level-1 stages do
Failed_NonZero_NoneOk(code) == code # Code(0) /\ code # NoneValue
\* modislvl1b_status != 0 (gbad and destriping)
Failed_NonZero(code) == code # Code(0)

\* a variant that gives up the relocation at the first missing file
RECURSIVE RelocateAll_StopAtMissing(_, _, _)
RelocateAll_StopAtMissing(keys, d, files) ==
    IF keys = <<>>
    THEN [disk |-> d, files |-> files]
    ELSE LET dest == retv(Head(keys))
             orig == fname_orig(dest)
         IN  IF orig \in d
             THEN RelocateAll_StopAtMissing(Tail(keys), ShutilMove(d, orig, dest),
                                            Append(files, dest))
             ELSE [disk |-> d, files |-> files]
\* the relocation of retv[key] for the keys of a list, in order: a file found
\* in the working directory is moved and appended to l1b_files
RECURSIVE RelocateAll(_, _, _)
RelocateAll(keys, d, files) ==
    IF keys = <<>>
    THEN [disk |-> d, files |-> files]
    ELSE LET dest == retv(Head(keys))
             orig == fname_orig(dest)
         IN  IF orig \in d
             THEN RelocateAll(Tail(keys), ShutilMove(d, orig, dest), Append(files, dest))
             ELSE RelocateAll(Tail(keys), d, files)

\* the keys of the loop before the 1B message
FinalKeys == <<"geo_file", "mod021km_file", "mod02hkm_file", "mod02qkm_file">>

\* no pipeline is modelled (Spec and SpecCalls)
PipeIdle ==
    /\ scene = NoScene
    /\ ppc = "idle"
    /\ disk = {}
    /\ pending = {}
    /\ l1b_files = <<>>
    /\ publish_q = <<>>
    /\ stages = <<>>

----------------------------------------------------------------------------
\* The ancillary files utcpole.dat and leapsec.dat of options['leapsec_dir'].

NAVIGATION_HELPER_FILES == <<"utcpole.dat", "leapsec.dat">>

\* options.get('days_between_url_download', 14)
days_between_url_download == 14

\* options.get('days_keep_old_etc_files', 60)
days_keep_old_etc_files == 60

\* the text after ".dat_" in a file name: ok tells whether strptime parses it
\* with "%Y%m%d%H%M", age is the number of days from the parsed time to now
Stamp(d) == [ok |-> TRUE, age |-> d]
BadStamp == [ok |-> FALSE, age |-> 0]

\* now.strftime('%Y%m%d%H%M'): the refreshes of one behaviour run within
\* the same minute
NowStamp == Stamp(0)

\* what the name utcpole.dat or leapsec.dat is in the directory: nothing, a
\* regular file, or a symbolic link to the file <name>_<stamp>
NoLink == [kind |-> "absent", to |-> BadStamp]
PlainFile == [kind |-> "file", to |-> BadStamp]
LinkTo(stamp) == [kind |-> "link", to |-> stamp]

\* os.path.exists(linkfile): a link is followed
PathExists(e, bname) ==
    \/ e.link[bname].kind = "file"
    \/ e.link[bname].kind = "link" /\ <<bname, e.link[bname].to>> \in DOMAIN e.dat

\* the name resolves to a file whose content was written to the end
ResolvesComplete(e, bname) ==
    \/ e.link[bname].kind = "file"
    \/ /\ e.link[bname].kind = "link"
       /\ <<bname, e.link[bname].to>> \in DOMAIN e.dat
       /\ e.dat[<<bname, e.link[bname].to>>] = "complete"

\* the body of the loop of check_utcpole_and_leapsec_files for one name:
\* "False" is files_ok = False and break, "ok" leaves files_ok as it is
CheckFile(e, bname, thr_days) ==
    IF ~PathExists(e, bname) THEN "False"
    ELSE IF e.link[bname].kind # "link" THEN "False"
    ELSE IF ~e.link[bname].to.ok THEN "ValueError"
    ELSE IF e.link[bname].to.age > thr_days THEN "False"
    ELSE "ok"

\* check_utcpole_and_leapsec_files: "True", "False", or the exception raised
RECURSIVE CheckFrom(_, _, _)
CheckFrom(e, thr_days, n) ==
    IF n > Len(NAVIGATION_HELPER_FILES) THEN "True"
    ELSE LET r == CheckFile(e, NAVIGATION_HELPER_FILES[n], thr_days)
         IN  IF r = "ok" THEN CheckFrom(e, thr_days, n + 1) ELSE r

check_utcpole_and_leapsec_files(e, thr_days) == CheckFrom(e, thr_days, 1)

\* the processes that call the check: modis_live_runner before its loop and
\* the pool workers at the end of run_terra_aqua_l0l1
Workers == {"worker1", "worker2"}
Procs == {"startup"} \cup Workers

\* a caller that has not started
IdleProc == [pc |-> "idle", i |-> 0, flist |-> {}, fresh |-> "none",
             published |-> FALSE]

\* no directory is modelled (Spec, SpecCalls, SpecPipeline and SpecPool)
AncIdle ==
    /\ etc = [link |-> [b \in {} |-> NoLink], dat |-> EmptyDict]
    /\ upd = [p \in Procs |-> IdleProc]

----------------------------------------------------------------------------
\* State before any thread has run.

\* the record of a function application: which function, on which inputs
\* (exists is the answer of os.path.exists), and what it returned
NoCall == [fn |-> "none", message_data |-> NoMessage, sceneid |-> KeyName(NoMessage),
           exists |-> FALSE, ret |-> FALSE]

\* eos_files = {} and jobs_dict = {} of modis_live_runner
InitRunner ==
    /\ eos_files = EmptyDict
    /\ jobs_dict = EmptyDict
    /\ pc = "get"
    /\ msg = NoMessage
    /\ status = FALSE
    /\ clock = 0
    /\ timers = <<>>
    /\ tasks = <<>>
    /\ call = NoCall
    /\ PipeIdle
    /\ AncIdle

----------------------------------------------------------------------------
\* SpecCalls: the registry functions applied one call at a time.

JobValues == {NoneValue, DateTime(1)}

\* the job registers handed to scene_processed_recently
JobRegisters ==
    UNION {[S -> JobValues] : S \in SUBSET {k \in Keys : k[1] \in EOS_SATELLITES}}

runner_vars == <<pc, msg, status, clock, timers, tasks>>

InitCalls ==
    /\ eos_files = EmptyDict
    /\ jobs_dict \in JobRegisters
    /\ pc = "get"
    /\ msg = NoMessage
    /\ status = FALSE
    /\ clock = 0
    /\ timers = <<>>
    /\ tasks = <<>>
    /\ call = NoCall
    /\ PipeIdle
    /\ AncIdle

CallSceneProcessedRecently(sceneid) ==
    /\ call' = [fn |-> "scene_processed_recently", message_data |-> NoMessage,
                sceneid |-> sceneid, exists |-> FALSE,
                ret |-> scene_processed_recently(jobs_dict, sceneid)]
    /\ UNCHANGED <<eos_files, jobs_dict, runner_vars, pipe_vars, anc_vars>>

CallReady2Run(message_data, exists) ==
    LET sceneid == KeyName(message_data)
        r == ready2run(message_data, eos_files, sceneid, exists)
    IN  /\ eos_files' = r.eosfiles
        /\ call' = [fn |-> "ready2run", message_data |-> message_data,
                    sceneid |-> sceneid, exists |-> exists, ret |-> r.ret]
        /\ UNCHANGED <<jobs_dict, runner_vars, pipe_vars, anc_vars>>

CallResetJobRegistry(key) ==
    LET r == reset_job_registry(jobs_dict, eos_files, key)
    IN  /\ jobs_dict' = r.objdict
        /\ eos_files' = r.eosfiles
        /\ call' = [fn |-> "reset_job_registry", message_data |-> NoMessage,
                    sceneid |-> key, exists |-> FALSE, ret |-> FALSE]
        /\ UNCHANGED <<runner_vars, pipe_vars, anc_vars>>

NextCalls ==
    \/ \E sceneid \in Keys : CallSceneProcessedRecently(sceneid)
    \/ \E message_data \in Messages, exists \in BOOLEAN : CallReady2Run(message_data, exists)
    \/ \E key \in Keys : CallResetJobRegistry(key)

SpecCalls == InitCalls /\ [][NextCalls]_vars

----------------------------------------------------------------------------
\* Spec: the runner. One action is one access of one thread to a shared
\* dictionary (the interpreter may switch threads between any two of them).

\* Pool(processes=6, maxtasksperchild=1)
PoolSize == 6

\* check_message of MODISFileListener on the platform and the sensors: only
\* such notifications are put on listener_q
ListenerAccepts(m) ==
    /\ m.platform_name \in EOS_SATELLITES
    /\ ~ \E i \in 1..Len(AsList(m.sensor)) : AsList(m.sensor)[i] \notin {"modis", "gbad"}

keyname == KeyName(msg)

\* msg = listener_q.get() and the locals computed from it
CtlGet ==
    /\ pc = "get"
    /\ clock < MaxJobs
    /\ \E m \in Messages :
          /\ ListenerAccepts(m)
          /\ msg' = m
    /\ pc' = "chk_in"
    /\ UNCHANGED <<eos_files, jobs_dict, status, clock, timers, tasks, call, pipe_vars, anc_vars>>

\* scene_processed_recently: sceneid in job_register
CtlChkIn ==
    /\ pc = "chk_in"
    /\ pc' = IF keyname \in DOMAIN jobs_dict THEN "chk_val" ELSE "r2r_ensure"
    /\ UNCHANGED <<eos_files, jobs_dict, msg, status, clock, timers, tasks, call, pipe_vars, anc_vars>>

\* a variant that goes on to ready2run for a scene that is registered
CtlChkVal_NoContinue ==
    /\ pc = "chk_val"
    /\ pc' = IF keyname \notin DOMAIN jobs_dict THEN "crashed" ELSE "r2r_ensure"
    /\ UNCHANGED <<eos_files, jobs_dict, msg, status, clock, timers, tasks, call, pipe_vars, anc_vars>>

\* scene_processed_recently: job_register[sceneid], a KeyError when a timer
\* popped the key since the membership test; then `continue` when it is true
CtlChkVal ==
    /\ pc = "chk_val"
    /\ pc' = IF keyname \notin DOMAIN jobs_dict THEN "crashed"
             ELSE IF Truthy(jobs_dict[keyname]) THEN "get"
             ELSE "r2r_ensure"
    /\ UNCHANGED <<eos_files, jobs_dict, msg, status, clock, timers, tasks, call, pipe_vars, anc_vars>>

\* ready2run: the entry of the scene is created when there is none
CtlR2REnsure ==
    /\ pc = "r2r_ensure"
    /\ eos_files' = R2REnsure(eos_files, keyname)
    /\ pc' = "r2r_record"
    /\ UNCHANGED <<jobs_dict, msg, status, clock, timers, tasks, call, pipe_vars, anc_vars>>

\* ready2run: the branch of the platform; return False when the file is not
\* there; eosfiles[sceneid][role] = path is a KeyError when a timer popped the
\* entry
CtlR2RRecord ==
    /\ pc = "r2r_record"
    /\ IF ~R2RMatches(msg)
       THEN /\ pc' = "r2r_ready"
            /\ UNCHANGED <<eos_files, status>>
       ELSE \E exists \in BOOLEAN :
               IF ~exists
               THEN /\ status' = FALSE
                    /\ pc' = "get"
                    /\ UNCHANGED eos_files
               ELSE IF keyname \notin DOMAIN eos_files
                    THEN /\ pc' = "crashed"
                         /\ UNCHANGED <<eos_files, status>>
                    ELSE /\ eos_files' = R2RRecord(msg, eos_files, keyname)
                         /\ pc' = "r2r_ready"
                         /\ UNCHANGED status
    /\ UNCHANGED <<jobs_dict, msg, clock, timers, tasks, call, pipe_vars, anc_vars>>

\* a variant that deletes the entry of a scene that is not ready
CtlR2RReady_DropsUnready ==
    /\ pc = "r2r_ready"
    /\ IF keyname \notin DOMAIN eos_files
       THEN /\ pc' = "crashed"
            /\ UNCHANGED <<status, eos_files>>
       ELSE /\ status' = R2RReady(eos_files, keyname)
            /\ pc' = IF R2RReady(eos_files, keyname) THEN "admit" ELSE "get"
            /\ eos_files' = IF R2RReady(eos_files, keyname) THEN eos_files
                            ELSE PopKey(eos_files, keyname)
    /\ UNCHANGED <<jobs_dict, msg, clock, timers, tasks, call, pipe_vars, anc_vars>>
\* ready2run: the final test on eosfiles[sceneid], and `if status:`
CtlR2RReady ==
    /\ pc = "r2r_ready"
    /\ IF keyname \notin DOMAIN eos_files
       THEN /\ pc' = "crashed"
            /\ UNCHANGED status
       ELSE /\ status' = R2RReady(eos_files, keyname)
            /\ pc' = IF R2RReady(eos_files, keyname) THEN "admit" ELSE "get"
    /\ UNCHANGED <<eos_files, jobs_dict, msg, clock, timers, tasks, call, pipe_vars, anc_vars>>

\* jobs_dict[keyname] = datetime.utcnow()
CtlAdmit ==
    /\ pc = "admit"
    /\ clock' = clock + 1
    /\ jobs_dict' = SetItem(jobs_dict, keyname, DateTime(clock + 1))
    /\ pc' = "dispatch"
    /\ UNCHANGED <<eos_files, msg, status, timers, tasks, call, pipe_vars, anc_vars>>

\* the scene is built from eos_files[keyname] and sent to the pool with
\* jobs_dict[keyname]; either subscript is a KeyError when a timer popped it
CtlDispatch ==
    /\ pc = "dispatch"
    /\ IF keyname \notin DOMAIN eos_files \/ keyname \notin DOMAIN jobs_dict
       THEN /\ pc' = "crashed"
            /\ UNCHANGED tasks
       ELSE /\ tasks' = IF msg.platform_name \in {TERRA, AQUA}
                        THEN Append(tasks, [key |-> keyname,
                                            job_id |-> jobs_dict[keyname],
                                            modisfilename |-> eos_files[keyname]["modisfile"],
                                            packetfilename |-> eos_files[keyname]["packetfile"],
                                            st |-> "queued"])
                        ELSE tasks
            /\ pc' = "start_timer"
    /\ UNCHANGED <<eos_files, jobs_dict, msg, status, clock, timers, call, pipe_vars, anc_vars>>

\* threading.Timer(5 * 60.0, reset_job_registry, args=(jobs_dict, eos_files, keyname)).start()
CtlStartTimer ==
    /\ pc = "start_timer"
    /\ timers' = Append(timers, [key |-> keyname, pc |-> "wait"])
    /\ pc' = "get"
    /\ UNCHANGED <<eos_files, jobs_dict, msg, status, clock, tasks, call, pipe_vars, anc_vars>>

\* the timer thread i moves to position p
TimerAt(i, p) == timers' = [timers EXCEPT ![i].pc = p]

\* reset_job_registry, 5 minutes after the start: key in objdict
TimerChkJobs(i) ==
    /\ timers[i].pc = "wait"
    /\ TimerAt(i, IF timers[i].key \in DOMAIN jobs_dict THEN "pop_jobs" ELSE "chk_eos")
    /\ UNCHANGED <<eos_files, jobs_dict, pc, msg, status, clock, tasks, call, pipe_vars, anc_vars>>

\* objdict.pop(key), a KeyError that ends the thread when the key has gone
TimerPopJobs(i) ==
    /\ timers[i].pc = "pop_jobs"
    /\ IF timers[i].key \in DOMAIN jobs_dict
       THEN /\ jobs_dict' = PopKey(jobs_dict, timers[i].key)
            /\ TimerAt(i, "chk_eos")
       ELSE /\ TimerAt(i, "dead")
            /\ UNCHANGED jobs_dict
    /\ UNCHANGED <<eos_files, pc, msg, status, clock, tasks, call, pipe_vars, anc_vars>>

\* key in eosfiles
TimerChkEos(i) ==
    /\ timers[i].pc = "chk_eos"
    /\ TimerAt(i, IF timers[i].key \in DOMAIN eos_files THEN "pop_eos" ELSE "done")
    /\ UNCHANGED <<eos_files, jobs_dict, pc, msg, status, clock, tasks, call, pipe_vars, anc_vars>>

\* eosfiles.pop(key)
TimerPopEos(i) ==
    /\ timers[i].pc = "pop_eos"
    /\ IF timers[i].key \in DOMAIN eos_files
       THEN /\ eos_files' = PopKey(eos_files, timers[i].key)
            /\ TimerAt(i, "done")
       ELSE /\ TimerAt(i, "dead")
            /\ UNCHANGED eos_files
    /\ UNCHANGED <<jobs_dict, pc, msg, status, clock, tasks, call, pipe_vars, anc_vars>>

\* the tasks of the pool that a worker process is running
Running == {i \in 1..Len(tasks) : tasks[i].st = "running"}

\* a variant in which a waiting task starts whether or not a worker is free
WorkerStart_NoLimit(i) ==
    /\ tasks[i].st = "queued"
    /\ \A j \in 1..(i - 1) : tasks[j].st # "queued"
    /\ tasks' = [tasks EXCEPT ![i].st = "running"]
    /\ UNCHANGED <<eos_files, jobs_dict, pc, msg, status, clock, timers, call, pipe_vars, anc_vars>>
\* a free worker process takes the oldest task waiting in the pool
WorkerStart(i) ==
    /\ tasks[i].st = "queued"
    /\ \A j \in 1..(i - 1) : tasks[j].st # "queued"
    /\ Cardinality(Running) < PoolSize
    /\ tasks' = [tasks EXCEPT ![i].st = "running"]
    /\ UNCHANGED <<eos_files, jobs_dict, pc, msg, status, clock, timers, call, pipe_vars, anc_vars>>

\* a variant in which the exception of the task reaches the control loop
WorkerRaise_Propagates(i) ==
    /\ tasks[i].st = "running"
    /\ tasks' = [tasks EXCEPT ![i].st = "raised"]
    /\ pc' = "crashed"
    /\ UNCHANGED <<eos_files, jobs_dict, msg, status, clock, timers, call, pipe_vars, anc_vars>>

\* run_terra_aqua_l0l1 raises: the exception is kept in the AsyncResult of
\* apply_async, which the control loop never reads
WorkerRaise(i) ==
    /\ tasks[i].st = "running"
    /\ tasks' = [tasks EXCEPT ![i].st = "raised"]
    /\ UNCHANGED <<eos_files, jobs_dict, pc, msg, status, clock, timers, call, pipe_vars, anc_vars>>

\* run_terra_aqua_l0l1 returns: the task is over
WorkerFinish(i) ==
    /\ tasks[i].st = "running"
    /\ tasks' = [tasks EXCEPT ![i].st = "done"]
    /\ UNCHANGED <<eos_files, jobs_dict, pc, msg, status, clock, timers, call, pipe_vars, anc_vars>>

Next ==
    \/ CtlGet
    \/ CtlChkIn
    \/ CtlChkVal
    \/ CtlR2REnsure
    \/ CtlR2RRecord
    \/ CtlR2RReady
    \/ CtlAdmit
    \/ CtlDispatch
    \/ CtlStartTimer
    \/ \E i \in 1..Len(timers) : TimerChkJobs(i)
    \/ \E i \in 1..Len(timers) : TimerPopJobs(i)
    \/ \E i \in 1..Len(timers) : TimerChkEos(i)
    \/ \E i \in 1..Len(timers) : TimerPopEos(i)
    \/ \E i \in 1..Len(tasks) : WorkerStart(i)
    \/ \E i \in 1..Len(tasks) : WorkerFinish(i)
    \/ \E i \in 1..Len(tasks) : WorkerRaise(i)

Spec == InitRunner /\ [][Next]_vars

----------------------------------------------------------------------------
\* SpecPipeline: one admitted scene, its run_terra_aqua_l0l1 execution in a
\* pool worker and its eviction timer. One action is one stage of the
\* pipeline with the relocation and the publication that follow it.

shared_vars == <<eos_files, jobs_dict, pc, msg, status, clock, timers, tasks, call,
                 anc_vars>>

\* a variant that publishes the 1A message without looking for the file
PipeL1A_PublishUnchecked ==
    /\ ppc = "l1a"
    /\ \E code \in ReturnCodes, written \in SUBSET StageOutputs("l1a") :
          /\ PopenPoll("l1a", code, written)
          /\ disk' = DiskWith(written)
          /\ IF Failed_L1(code)
             THEN /\ ppc' = "aborted"
                  /\ UNCHANGED publish_q
             ELSE /\ ppc' = IF mission = "A" THEN "gbad" ELSE "geo"
                  /\ publish_q' = Append(publish_q,
                         create_message(<<retv("level1a_file")>>, "1A", FALSE))
    /\ UNCHANGED <<scene, l1b_files, shared_vars>>
\* level-0 to level-1a: modis_l1a_script
PipeL1A ==
    /\ ppc = "l1a"
    /\ \E code \in ReturnCodes, written \in SUBSET StageOutputs("l1a") :
          /\ PopenPoll("l1a", code, written)
          /\ IF Failed_L1(code)
             THEN /\ ppc' = "aborted"
                  /\ disk' = DiskWith(written)
                  /\ UNCHANGED publish_q
             ELSE /\ ppc' = IF mission = "A" THEN "gbad" ELSE "geo"
                  /\ IF fname_orig(retv("level1a_file")) \in DiskWith(written)
                     THEN /\ disk' = ShutilMove(DiskWith(written),
                                                fname_orig(retv("level1a_file")),
                                                retv("level1a_file"))
                          /\ publish_q' = Append(publish_q,
                                 create_message(<<retv("level1a_file")>>, "1A", FALSE))
                     ELSE /\ disk' = DiskWith(written)
                          /\ UNCHANGED publish_q
    /\ UNCHANGED <<scene, l1b_files, shared_vars>>

\* run_aqua_gbad: (None, None) unless the return code is 0
PipeGbad ==
    /\ ppc = "gbad"
    /\ \E code \in ReturnCodes :
          /\ PopenPoll("gbad", code, {})
          /\ ppc' = IF Failed_NonZero(code) THEN "aborted" ELSE "geo"
    /\ UNCHANGED <<scene, disk, l1b_files, publish_q, shared_vars>>

\* a variant that aborts when the geolocation file is missing
PipeGeo_AbortOnMissing ==
    /\ ppc = "geo"
    /\ \E code \in ReturnCodes, written \in SUBSET StageOutputs("geo") :
          /\ PopenPoll("geo", code, written)
          /\ IF Failed_Geo(code) \/ fname_orig(retv("geo_file")) \notin DiskWith(written)
             THEN /\ ppc' = "aborted"
                  /\ disk' = DiskWith(written)
                  /\ UNCHANGED l1b_files
             ELSE /\ ppc' = "l1b"
                  /\ disk' = RelocateAll(<<"geo_file">>, DiskWith(written), <<>>).disk
                  /\ l1b_files' = RelocateAll(<<"geo_file">>, DiskWith(written), <<>>).files
    /\ UNCHANGED <<scene, publish_q, shared_vars>>
\* geolocation: modis_geo_script; l1b_files = [] and the relocation of geo_file
PipeGeo ==
    /\ ppc = "geo"
    /\ \E code \in ReturnCodes, written \in SUBSET StageOutputs("geo") :
          /\ PopenPoll("geo", code, written)
          /\ IF Failed_Geo(code)
             THEN /\ ppc' = "aborted"
                  /\ disk' = DiskWith(written)
                  /\ UNCHANGED l1b_files
             ELSE /\ ppc' = "l1b"
                  /\ disk' = RelocateAll(<<"geo_file">>, DiskWith(written), <<>>).disk
                  /\ l1b_files' = RelocateAll(<<"geo_file">>, DiskWith(written), <<>>).files
    /\ UNCHANGED <<scene, publish_q, shared_vars>>

\* a variant that runs the destriping whatever apply_destriping says
PipeL1B_AlwaysDestripe ==
    /\ ppc = "l1b"
    /\ \E code \in ReturnCodes, written \in SUBSET StageOutputs("l1b") :
          /\ PopenPoll("l1b", code, written)
          /\ disk' = DiskWith(written)
          /\ ppc' = IF Failed_L1(code) THEN "aborted" ELSE "destripe"
    /\ UNCHANGED <<scene, l1b_files, publish_q, shared_vars>>
\* radiometric calibration: modis_l1b_script
PipeL1B ==
    /\ ppc = "l1b"
    /\ \E code \in ReturnCodes, written \in SUBSET StageOutputs("l1b") :
          /\ PopenPoll("l1b", code, written)
          /\ disk' = DiskWith(written)
          /\ ppc' = IF Failed_L1(code) THEN "aborted"
                    ELSE IF destripe_on THEN "destripe"
                    ELSE "relocate"
    /\ UNCHANGED <<scene, l1b_files, publish_q, shared_vars>>

\* a variant in which a failed destriping still publishes the 1B message
PipeDestripe_PublishOnFailure ==
    /\ ppc = "destripe"
    /\ \E code \in ReturnCodes :
          /\ PopenPoll("destripe", code, {})
          /\ ppc' = IF Failed_NonZero(code) THEN "aborted" ELSE "relocate"
          /\ publish_q' = IF Failed_NonZero(code)
                          THEN Append(publish_q, create_message(l1b_files, "1B", TRUE))
                          ELSE publish_q
    /\ UNCHANGED <<scene, disk, l1b_files, shared_vars>>
\* destriping of the 1km file in place, when destripe_on
PipeDestripe ==
    /\ ppc = "destripe"
    /\ \E code \in ReturnCodes :
          /\ PopenPoll("destripe", code, {})
          /\ ppc' = IF Failed_NonZero(code) THEN "aborted" ELSE "relocate"
    /\ UNCHANGED <<scene, disk, l1b_files, publish_q, shared_vars>>

\* the loop over geo_file and the three level-1b files, then the 1B message
PipeRelocate ==
    /\ ppc = "relocate"
    /\ disk' = RelocateAll(FinalKeys, disk, l1b_files).disk
    /\ l1b_files' = RelocateAll(FinalKeys, disk, l1b_files).files
    /\ publish_q' = Append(publish_q,
                           create_message(RelocateAll(FinalKeys, disk, l1b_files).files,
                                          "1B", TRUE))
    /\ ppc' = "luts"
    /\ UNCHANGED <<scene, pending, stages, shared_vars>>

\* the check of the utcpole and leapsec files, and the end of the function
PipeLuts ==
    /\ ppc = "luts"
    /\ ppc' = "finished"
    /\ UNCHANGED <<scene, disk, pending, l1b_files, publish_q, stages, shared_vars>>

\* the positions inside the try block
TryPositions == {"l1a", "gbad", "geo", "l1b", "destripe", "relocate", "luts"}

\* a variant in which the failing pipeline clears the job entry of its scene
PipeRaise_ClearsJob ==
    /\ ppc \in TryPositions
    /\ ppc' = "raised"
    /\ jobs_dict' = reset_job_registry(jobs_dict, eos_files, KeyName(msg)).objdict
    /\ UNCHANGED <<scene, disk, pending, l1b_files, publish_q, stages, eos_files, pc, msg,
                   status, clock, timers, tasks, call, anc_vars>>
\* an exception inside the try block: logged and raised again
PipeRaise ==
    /\ ppc \in TryPositions
    /\ ppc' = "raised"
    /\ UNCHANGED <<scene, disk, pending, l1b_files, publish_q, stages, shared_vars>>

\* an external process that had not terminated at poll() writes an output
LateWrite ==
    /\ \E path \in pending :
          /\ disk' = disk \cup {path}
          /\ pending' = pending \ {path}
    /\ UNCHANGED <<scene, ppc, l1b_files, publish_q, stages, shared_vars>>

\* the scene key, the notification and the readiness entry of the scene
SceneMessage(platform) ==
    [platform_name |-> platform, orbit_number |-> 16029, start_time |-> "202110111943",
     sensor |-> SensorStr("modis"),
     uri |-> <<"/tmp">> \o (IF platform = TERRA THEN MODISFILE_TERRA_PRFX
                           ELSE MODISFILE_AQUA_PRFX) \o <<"21284194359", "001.PDS">>]

SceneEntry(platform) ==
    IF platform = TERRA
    THEN [modisfile |-> SceneMessage(platform).uri, packetfile |-> <<>>]
    ELSE [modisfile |-> SceneMessage(platform).uri,
          packetfile |-> <<"/tmp">> \o PACKETFILE_AQUA_PRFX \o <<"21284194359", "001.PDS">>]

\* the state when the worker enters run_terra_aqua_l0l1 for a scene that the
\* control loop admitted, dispatched and started the timer of
InitPipeline ==
    /\ scene \in Scenes
    /\ ppc = "l1a"
    /\ disk = {}
    /\ pending = {}
    /\ l1b_files = <<>>
    /\ publish_q = <<>>
    /\ stages = <<>>
    /\ msg = SceneMessage(scene.platform_name)
    /\ eos_files = SetItem(EmptyDict, KeyName(msg), SceneEntry(scene.platform_name))
    /\ jobs_dict = SetItem(EmptyDict, KeyName(msg), DateTime(1))
    /\ pc = "get"
    /\ status = TRUE
    /\ clock = 1
    /\ timers = <<[key |-> KeyName(msg), pc |-> "wait"]>>
    /\ tasks = <<[key |-> KeyName(msg), job_id |-> DateTime(1),
                  modisfilename |-> SceneEntry(scene.platform_name).modisfile,
                  packetfilename |-> SceneEntry(scene.platform_name).packetfile,
                  st |-> "running"]>>
    /\ call = NoCall
    /\ AncIdle

NextPipeline ==
    \/ PipeL1A
    \/ PipeGbad
    \/ PipeGeo
    \/ PipeL1B
    \/ PipeDestripe
    \/ PipeRelocate
    \/ PipeLuts
    \/ PipeRaise
    \/ LateWrite
    \/ TimerChkJobs(1)
    \/ TimerPopJobs(1)
    \/ TimerChkEos(1)
    \/ TimerPopEos(1)

SpecPipeline == InitPipeline /\ [][NextPipeline]_vars

----------------------------------------------------------------------------
\* SpecPool: the pool of worker processes under a stream of admitted scenes.
\* The handling of the notification that completes a scene (the body of the
\* control loop from ready2run to the start of the timer) and the run of
\* reset_job_registry are each taken as one step, so that more scenes can be
\* dispatched than the pool has worker processes.

\* the number of scenes dispatched in one behaviour
MaxTasks == 8

\* the control loop admits the Terra scene, hands it to the pool with
\* apply_async, which returns at once, and starts the timer of its key
PoolAdmit ==
    /\ pc = "get"
    /\ Len(tasks) < MaxTasks
    /\ LET m == SceneMessage(TERRA)
           k == KeyName(m)
       IN  /\ ~scene_processed_recently(jobs_dict, k)
           /\ msg' = m
           /\ status' = TRUE
           /\ clock' = clock + 1
           /\ eos_files' = SetItem(eos_files, k, SceneEntry(TERRA))
           /\ jobs_dict' = SetItem(jobs_dict, k, DateTime(clock'))
           /\ tasks' = Append(tasks, [key |-> k, job_id |-> DateTime(clock'),
                                      modisfilename |-> SceneEntry(TERRA).modisfile,
                                      packetfilename |-> SceneEntry(TERRA).packetfile,
                                      st |-> "queued"])
           /\ timers' = Append(timers, [key |-> k, pc |-> "wait"])
    /\ UNCHANGED <<pc, call, pipe_vars, anc_vars>>

\* the timer i fires and reset_job_registry pops its key from both registries
PoolEvict(i) ==
    /\ timers[i].pc = "wait"
    /\ TimerAt(i, "done")
    /\ LET r == reset_job_registry(jobs_dict, eos_files, timers[i].key)
       IN  /\ jobs_dict' = r.objdict
           /\ eos_files' = r.eosfiles
    /\ UNCHANGED <<pc, msg, status, clock, tasks, call, pipe_vars, anc_vars>>

NextPool ==
    \/ PoolAdmit
    \/ \E i \in 1..Len(timers) : PoolEvict(i)
    \/ \E i \in 1..Len(tasks) : WorkerStart(i)
    \/ \E i \in 1..Len(tasks) : WorkerFinish(i)
    \/ \E i \in 1..Len(tasks) : WorkerRaise(i)

SpecPool == InitRunner /\ [][NextPool]_vars

----------------------------------------------------------------------------
\* SpecAncillary: the freshness check and the refresh of the ancillary files,
\* run by modis_live_runner at startup and by the pool workers at the end of
\* run_terra_aqua_l0l1, interleaved at the granularity of one operation on
\* the file system or on the network.

\* the names of the directory at startup
LinkChoices == {"absent", "file", "fresh", "stale", "old", "unparsable", "dangling"}

InitLink(c) ==
    CASE c = "absent" -> NoLink
      [] c = "file" -> PlainFile
      [] c = "fresh" -> LinkTo(Stamp(7))
      [] c = "stale" -> LinkTo(Stamp(30))
      [] c = "old" -> LinkTo(Stamp(90))
      [] c = "unparsable" -> LinkTo(BadStamp)
      [] c = "dangling" -> LinkTo(Stamp(30))

InitEtc(cu, cl) ==
    LET lnk == [b \in {"utcpole.dat", "leapsec.dat"} |->
                  InitLink(IF b = "utcpole.dat" THEN cu ELSE cl)]
        fls == {<<b, lnk[b].to>> : b \in {b \in DOMAIN lnk :
                   /\ lnk[b].kind = "link"
                   /\ (IF b = "utcpole.dat" THEN cu ELSE cl) # "dangling"}}
    IN  [link |-> lnk, dat |-> [f \in fls |-> "complete"]]

InitAncillary ==
    /\ eos_files = EmptyDict
    /\ jobs_dict = EmptyDict
    /\ pc = "get"
    /\ msg = NoMessage
    /\ status = FALSE
    /\ clock = 0
    /\ timers = <<>>
    /\ tasks = <<>>
    /\ call = NoCall
    /\ PipeIdle
    /\ \E cu \in LinkChoices, cl \in LinkChoices : etc = InitEtc(cu, cl)
    /\ upd = [p \in Procs |-> IF p = "startup" THEN [IdleProc EXCEPT !.pc = "check"]
                              ELSE IdleProc]

anc_frame == <<eos_files, jobs_dict, pc, msg, status, clock, timers, tasks, call, pipe_vars>>

\* the process p moves to position q
At(p, q) == upd' = [upd EXCEPT ![p].pc = q]

\* the name the loop of update_utcpole_and_leapsec_files is at
filename(p) == NAVIGATION_HELPER_FILES[upd[p].i]

\* continue, or the end of the loop of update_utcpole_and_leapsec_files
NextFile(p) ==
    IF upd[p].i < Len(NAVIGATION_HELPER_FILES)
    THEN upd' = [upd EXCEPT ![p].pc = "url", ![p].i = upd[p].i + 1]
    ELSE At(p, "luts_done")

\* a scene is admitted and a pool worker enters run_terra_aqua_l0l1: the
\* control loop is reached only after the check of startup
AncWorkerStart(w) ==
    /\ upd[w].pc = "idle"
    /\ upd["startup"].pc = "loop"
    /\ At(w, "stages")
    /\ UNCHANGED <<etc, anc_frame>>

\* a variant in which the worker checks the files before its first stage
AncWorkerStages_CheckFirst(w) ==
    /\ upd[w].pc = "stages"
    /\ upd[w].fresh = "none"
    /\ At(w, "check")
    /\ UNCHANGED <<etc, anc_frame>>

\* the stages of run_terra_aqua_l0l1 up to the 1B message: a stage fails and
\* the function returns, an exception is raised, or the end is reached
AncWorkerStages(w) ==
    /\ upd[w].pc = "stages"
    /\ \E outcome \in {"published", "aborted", "raised"} :
          upd' = [upd EXCEPT ![w].pc = IF outcome = "published" THEN "check" ELSE outcome,
                             ![w].published = (outcome = "published")]
    /\ UNCHANGED <<etc, anc_frame>>

\* fresh = check_utcpole_and_leapsec_files(...): update is called when the
\* result is false
AncCheck(p) ==
    /\ upd[p].pc = "check"
    /\ LET r == check_utcpole_and_leapsec_files(etc, days_between_url_download)
       IN  upd' = [upd EXCEPT ![p].fresh = r,
                              ![p].pc = CASE r = "True" -> "luts_done"
                                          [] r = "False" -> "clean"
                                          [] OTHER -> "raised"]
    /\ UNCHANGED <<etc, anc_frame>>

\* flist = glob(os.path.join(etc_dir, '*.dat_*'))
AncGlob(p) ==
    /\ upd[p].pc = "clean"
    /\ upd' = [upd EXCEPT ![p].pc = "cleaning", ![p].flist = DOMAIN etc.dat]
    /\ UNCHANGED <<anc_frame, etc>>

\* one turn of the loop of clean_utcpole_and_leapsec_files: strptime raises
\* ValueError, os.remove raises OSError, and neither is caught
AncCleanFile(p) ==
    /\ upd[p].pc = "cleaning"
    /\ upd[p].flist # {}
    /\ \E f \in upd[p].flist, removed \in BOOLEAN :
          IF ~f[2].ok
          THEN /\ At(p, "raised")
               /\ UNCHANGED etc
          ELSE IF f[2].age > days_keep_old_etc_files
          THEN IF f \in DOMAIN etc.dat /\ removed
               THEN /\ etc' = [etc EXCEPT !.dat = PopKey(etc.dat, f)]
                    /\ upd' = [upd EXCEPT ![p].flist = upd[p].flist \ {f}]
               ELSE /\ At(p, "raised")
                    /\ UNCHANGED etc
          ELSE /\ upd' = [upd EXCEPT ![p].flist = upd[p].flist \ {f}]
               /\ UNCHANGED etc
    /\ UNCHANGED anc_frame

\* clean_utcpole_and_leapsec_files returns
AncCleanEnd(p) ==
    /\ upd[p].pc = "cleaning"
    /\ upd[p].flist = {}
    /\ At(p, "probe")
    /\ UNCHANGED <<etc, anc_frame>>

\* usock = urlopen(url_modis_navigation, timeout=10): URLError and timeout
\* are caught and the function returns
AncProbe(p) ==
    /\ upd[p].pc = "probe"
    /\ \E opened \in BOOLEAN :
          IF opened THEN upd' = [upd EXCEPT ![p].pc = "url", ![p].i = 1]
          ELSE At(p, "luts_done")
    /\ UNCHANGED <<etc, anc_frame>>

\* usock = urlopen(url_modis_navigation + filename, timeout=10): HTTPError
\* and timeout are caught, any other URLError is not
AncUrl(p) ==
    /\ upd[p].pc = "url"
    /\ \E outcome \in {"opened", "HTTPError", "timeout", "URLError"} :
          CASE outcome = "opened" -> At(p, "read")
            [] outcome = "URLError" -> At(p, "raised")
            [] OTHER -> NextFile(p)
    /\ UNCHANGED <<etc, anc_frame>>

\* data = usock.read()
AncRead(p) ==
    /\ upd[p].pc = "read"
    /\ \E read \in BOOLEAN : At(p, IF read THEN "open" ELSE "raised")
    /\ UNCHANGED <<etc, anc_frame>>

\* open(outfile, 'wb') creates the file or truncates it
AncOpen(p) ==
    /\ upd[p].pc = "open"
    /\ \E opened \in BOOLEAN :
          IF opened
          THEN /\ etc' = [etc EXCEPT !.dat = SetItem(etc.dat, <<filename(p), NowStamp>>, "partial")]
               /\ At(p, "write")
          ELSE /\ At(p, "raised")
               /\ UNCHANGED etc
    /\ UNCHANGED anc_frame

\* fd_.write(data) and the end of the with block
AncWrite(p) ==
    /\ upd[p].pc = "write"
    /\ \E written \in BOOLEAN :
          IF written
          THEN /\ etc' = [etc EXCEPT !.dat = SetItem(etc.dat, <<filename(p), NowStamp>>, "complete")]
               /\ At(p, "islink")
          ELSE /\ At(p, "raised")
               /\ UNCHANGED etc
    /\ UNCHANGED anc_frame

\* if os.path.islink(linkfile) or os.path.isfile(linkfile):
AncIsLink(p) ==
    /\ upd[p].pc = "islink"
    /\ At(p, IF etc.link[filename(p)].kind # "absent" THEN "unlink" ELSE "symlink")
    /\ UNCHANGED <<etc, anc_frame>>

\* os.unlink(linkfile), outside every try block
AncUnlink(p) ==
    /\ upd[p].pc = "unlink"
    /\ \E unlinked \in BOOLEAN :
          IF etc.link[filename(p)].kind # "absent" /\ unlinked
          THEN /\ etc' = [etc EXCEPT !.link[filename(p)] = NoLink]
               /\ At(p, "symlink")
          ELSE /\ At(p, "raised")
               /\ UNCHANGED etc
    /\ UNCHANGED anc_frame

\* os.symlink(outfile, linkfile): OSError is caught and logged
AncSymlink(p) ==
    /\ upd[p].pc = "symlink"
    /\ \E linked \in BOOLEAN :
          /\ etc' = IF etc.link[filename(p)].kind = "absent" /\ linked
                    THEN [etc EXCEPT !.link[filename(p)] = LinkTo(NowStamp)]
                    ELSE etc
          /\ NextFile(p)
    /\ UNCHANGED anc_frame

\* the caller goes on after the if statement: modis_live_runner creates the
\* pool and enters its loop, run_terra_aqua_l0l1 returns
AncContinue(p) ==
    /\ upd[p].pc = "luts_done"
    /\ At(p, IF p = "startup" THEN "loop" ELSE "finished")
    /\ UNCHANGED <<etc, anc_frame>>

NextAncillary ==
    \/ \E w \in Workers : AncWorkerStart(w)
    \/ \E w \in Workers : AncWorkerStages(w)
    \/ \E p \in Procs : AncCheck(p)
    \/ \E p \in Procs : AncGlob(p)
    \/ \E p \in Procs : AncCleanFile(p)
    \/ \E p \in Procs : AncCleanEnd(p)
    \/ \E p \in Procs : AncProbe(p)
    \/ \E p \in Procs : AncUrl(p)
    \/ \E p \in Procs : AncRead(p)
    \/ \E p \in Procs : AncOpen(p)
    \/ \E p \in Procs : AncWrite(p)
    \/ \E p \in Procs : AncIsLink(p)
    \/ \E p \in Procs : AncUnlink(p)
    \/ \E p \in Procs : AncSymlink(p)
    \/ \E p \in Procs : AncContinue(p)

SpecAncillary == InitAncillary /\ [][NextAncillary]_vars

----------------------------------------------------------------------------
\* SpecFunctions: get_geo_command_line_list of modis_runner/utils.py and
\* check_message of MODISFileListener applied one call at a time. A string
\* of a command line is the sequence of the parts it is formatted from.

\* a Python list, and the truth value of a list or of None
List(l) == [type |-> "list", val |-> l]
ListTruthy(v) == v.type = "list" /\ Len(v.val) > 0

\* options.get of an option list: None when the key is not set
OptionLists == {NoneValue, List(<<>>), List(<<<<"--verbose">>>>),
                List(<<<<"--verbose">>, <<"--enable-dem">>>>)}

GeoOptions ==
    [modis_geo_script : {<<"modis_GEO">>},
     modis_geo_options_terra : OptionLists,
     modis_geo_options_aqua : OptionLists]

\* file names are paths: the sequence of a directory and a base name, or a
\* base name alone
Mod01Files == {<<"/a/b/", "mod01">>}
Mod03Files == {<<"geo.hdf">>, <<"/work/", "geo.hdf">>}
Basename(path) == <<path[Len(path)]>>

\* the keyword arguments of a call
GeoKwargs ==
    UNION {[K -> {<<"/x.att">>, <<"/x.eph">>}] : K \in SUBSET {"attitude", "ephemeris"}}

\* if 'attitude' in kwargs and 'ephemeris' in kwargs:
GeoForAqua(kwargs) == "attitude" \in DOMAIN kwargs /\ "ephemeris" \in DOMAIN kwargs

\* a variant in which one of the two keywords selects the Aqua options
GeoCmdOpts_Either(options, kwargs) ==
    IF "attitude" \in DOMAIN kwargs \/ "ephemeris" \in DOMAIN kwargs
    THEN options.modis_geo_options_aqua
    ELSE options.modis_geo_options_terra

\* cmd_opts: the option list of the platform
GeoCmdOpts(options, kwargs) ==
    IF GeoForAqua(kwargs) THEN options.modis_geo_options_aqua
    ELSE options.modis_geo_options_terra

\* a variant in which the keyword options are appended to the option list
\* of the options map itself
get_geo_command_line_list_InPlace(options, mod01_file, mod03_file, kwargs) ==
    LET cmd_opts == GeoCmdOpts(options, kwargs)
        cmdl == <<options.modis_geo_script>>
                   \o (IF ListTruthy(cmd_opts) THEN cmd_opts.val ELSE <<>>)
        out == <<<<"-o">> \o Basename(mod03_file), mod01_file>>
        aqua_opts == IF GeoForAqua(kwargs)
                     THEN <<<<"--att1=">> \o kwargs["attitude"],
                            <<"--eph1=">> \o kwargs["ephemeris"]>>
                     ELSE <<>>
    IN  [cmdl |-> cmdl \o aqua_opts \o out,
         options |-> IF GeoForAqua(kwargs) /\ ListTruthy(cmd_opts)
                     THEN [options EXCEPT !.modis_geo_options_aqua =
                                             List(cmd_opts.val \o aqua_opts)]
                     ELSE options]

\* get_geo_command_line_list: the list returned, and the options map as the
\* call leaves it
get_geo_command_line_list(options, mod01_file, mod03_file, kwargs) ==
    LET cmd_opts == GeoCmdOpts(options, kwargs)
        cmdl == <<options.modis_geo_script>>
                   \o (IF ListTruthy(cmd_opts) THEN cmd_opts.val ELSE <<>>)
        out == <<<<"-o">> \o Basename(mod03_file), mod01_file>>
    IN  [cmdl |-> IF GeoForAqua(kwargs)
                  THEN cmdl \o <<<<"--att1=">> \o kwargs["attitude"],
                                 <<"--eph1=">> \o kwargs["ephemeris"]>> \o out
                  ELSE cmdl \o out,
         options |-> options]

\* the notifications the subscriber hands to check_message: data holds the
\* keys that are present
MessageTypes == {"file", "collection", "dataset", "ack"}
DataKeys == {"uri", "platform_name", "orbit_number", "start_time", "sensor"}

\* the host of a uri: none, this host, another host, a name no resolver knows
Hosts == {"", "localhost", "remotehost", "nohost"}

DataValue(key, host, platform, sensor) ==
    CASE key = "uri" -> [netloc |-> host, path |-> <<"/tmp", "P0420064AAAAAAAAAAAAAA21284194359001.PDS">>]
      [] key = "platform_name" -> platform
      [] key = "orbit_number" -> 16029
      [] key = "start_time" -> "202110111943"
      [] key = "sensor" -> sensor

ListenerSensors == {SensorStr("modis"), SensorStr("viirs"), SensorList(<<"modis", "gbad">>),
                    SensorList(<<"modis", "viirs">>)}

RawMessages ==
    {[type |-> t, data |-> [k \in K |-> DataValue(k, h, p, s)]] :
        t \in MessageTypes, K \in SUBSET DataKeys, h \in Hosts,
        p \in {TERRA, "NOAA-20"}, s \in ListenerSensors}

\* socket.gethostbyname: the empty name is the wildcard address, an unknown
\* name raises socket.gaierror
gethostbyname(host) ==
    CASE host = "" -> "0.0.0.0"
      [] host = "localhost" -> "127.0.0.1"
      [] host = "remotehost" -> "192.0.2.7"
      [] OTHER -> "gaierror"

get_local_ips == {"127.0.0.1", "10.0.0.1"}

\* any([s not in ['modis', 'gbad'] for s in sensor]), where sensor is [None]
\* when the key is missing
AnyOtherSensor(m) ==
    IF "sensor" \notin DOMAIN m.data THEN TRUE
    ELSE \E n \in 1..Len(AsList(m.data["sensor"])) :
            AsList(m.data["sensor"])[n] \notin {"modis", "gbad"}

\* a variant that does not test the platform
check_message_AnyPlatform(m) ==
    IF m.type \notin {"file", "collection", "dataset"} THEN "False"
    ELSE IF "uri" \notin DOMAIN m.data THEN "KeyError"
    ELSE IF gethostbyname(m.data["uri"].netloc) = "gaierror" THEN "gaierror"
    ELSE IF m.data["uri"].netloc # ""
            /\ gethostbyname(m.data["uri"].netloc) \notin get_local_ips THEN "False"
    ELSE IF {"platform_name", "orbit_number", "start_time"} \ DOMAIN m.data # {} THEN "False"
    ELSE IF AnyOtherSensor(m) THEN "False"
    ELSE "True"

\* check_message: "True", "False", or the exception raised
check_message(m) ==
    IF m.type \notin {"file", "collection", "dataset"} THEN "False"
    ELSE IF "uri" \notin DOMAIN m.data THEN "KeyError"
    ELSE IF gethostbyname(m.data["uri"].netloc) = "gaierror" THEN "gaierror"
    ELSE IF m.data["uri"].netloc # ""
            /\ gethostbyname(m.data["uri"].netloc) \notin get_local_ips THEN "False"
    ELSE IF {"platform_name", "orbit_number", "start_time"} \ DOMAIN m.data # {} THEN "False"
    ELSE IF m.data["platform_name"] \notin EOS_SATELLITES THEN "False"
    ELSE IF AnyOtherSensor(m) THEN "False"
    ELSE "True"

\* modis_runner/config.py: the subscribe_topics option of get_config_yaml

\* the longest subscribe_topics string of the check
MaxTopicLen == 4

\* the characters of a subscribe_topics string
TopicChars == {"a", "b", ","}

\* the strings a configuration file may give
TopicStrings == UNION {[1..n -> TopicChars] : n \in 0..MaxTopicLen}

\* options.get('subscribe_topics'): a string, or a list that yaml built
TopicValues ==
    {[type |-> "str", val |-> s] : s \in TopicStrings}
        \cup {[type |-> "list", val |-> <<<<"a">>, <<>>, <<"b">>>>]}

\* str.split(','): the items between the commas, from character i on, with
\* cur the item being read and acc the items read
RECURSIVE SplitFrom(_, _, _, _)
SplitFrom(s, i, cur, acc) ==
    IF i > Len(s)
    THEN Append(acc, cur)
    ELSE IF s[i] = ","
         THEN SplitFrom(s, i + 1, <<>>, Append(acc, cur))
         ELSE SplitFrom(s, i + 1, Append(cur, s[i]), acc)

split(s) == SplitFrom(s, 1, <<>>, <<>>)

\* list.remove(item): the list without the first element equal to item
remove(l, item) ==
    LET first == CHOOSE i \in 1..Len(l) : l[i] = item /\ \A j \in 1..(i - 1) : l[j] # item
    IN  [i \in 1..(Len(l) - 1) |-> IF i < first THEN l[i] ELSE l[i + 1]]

\* for item in subscribe_topics: if len(item) == 0: subscribe_topics.remove(item)
\* the list iterator keeps an index into the list that the body shortens
RECURSIVE RemoveEmptyItems(_, _)
RemoveEmptyItems(subscribe_topics, idx) ==
    IF idx > Len(subscribe_topics)
    THEN subscribe_topics
    ELSE IF Len(subscribe_topics[idx]) = 0
         THEN RemoveEmptyItems(remove(subscribe_topics, <<>>), idx + 1)
         ELSE RemoveEmptyItems(subscribe_topics, idx + 1)

\* options['subscribe_topics'] when get_config_yaml returns
get_config_yaml(value) ==
    IF value.type = "str"
    THEN RemoveEmptyItems(split(value.val), 1)
    ELSE value.val
InitFunctions == InitRunner

CallGetGeoCommandLineList(options, mod01_file, mod03_file, kwargs) ==
    /\ LET r == get_geo_command_line_list(options, mod01_file, mod03_file, kwargs)
       IN  call' = [fn |-> "get_geo_command_line_list", options |-> options,
                    mod01_file |-> mod01_file, mod03_file |-> mod03_file,
                    kwargs |-> kwargs, ret |-> r.cmdl, options_after |-> r.options]
    /\ UNCHANGED <<eos_files, jobs_dict, runner_vars, pipe_vars, anc_vars>>

CallCheckMessage(m) ==
    /\ call' = [fn |-> "check_message", message |-> m, ret |-> check_message(m)]
    /\ UNCHANGED <<eos_files, jobs_dict, runner_vars, pipe_vars, anc_vars>>

CallGetConfigYaml(value) ==
    /\ call' = [fn |-> "get_config_yaml", value |-> value, ret |-> get_config_yaml(value)]
    /\ UNCHANGED <<eos_files, jobs_dict, runner_vars, pipe_vars, anc_vars>>
NextFunctions ==
    \/ \E options \in GeoOptions, mod01_file \in Mod01Files, mod03_file \in Mod03Files,
          kwargs \in GeoKwargs :
          CallGetGeoCommandLineList(options, mod01_file, mod03_file, kwargs)
    \/ \E m \in RawMessages : CallCheckMessage(m)
    \/ \E value \in TopicValues : CallGetConfigYaml(value)

SpecFunctions == InitFunctions /\ [][NextFunctions]_vars

----------------------------------------------------------------------------
\* SpecRun: one run of run_terra_aqua_l0l1 to its end and the return of its
\* pool worker. A stage action is taken when the external process of the
\* stage has ended its output; weak fairness of the stage actions says that
\* every external process that is started terminates.

\* a variant in which the worker process is not given back to the pool
RunReturn_KeepsSlot ==
    /\ ppc \in {"finished", "aborted", "raised"}
    /\ tasks[1].st = "running"
    /\ UNCHANGED vars

\* run_terra_aqua_l0l1 returns or raises in its worker process, which ends
\* (maxtasksperchild=1) and leaves its place in the pool
RunReturn ==
    /\ ppc \in {"finished", "aborted", "raised"}
    /\ tasks[1].st = "running"
    /\ tasks' = [tasks EXCEPT ![1].st = IF ppc = "raised" THEN "raised" ELSE "done"]
    /\ UNCHANGED <<eos_files, jobs_dict, pc, msg, status, clock, timers, call, pipe_vars,
                   anc_vars>>

NextRun ==
    \/ PipeL1A
    \/ PipeGbad
    \/ PipeGeo
    \/ PipeL1B
    \/ PipeDestripe
    \/ PipeRelocate
    \/ PipeLuts
    \/ PipeRaise
    \/ LateWrite
    \/ RunReturn

SpecRun ==
    /\ InitPipeline
    /\ [][NextRun]_vars
    /\ WF_vars(PipeL1A)
    /\ WF_vars(PipeGbad)
    /\ WF_vars(PipeGeo)
    /\ WF_vars(PipeL1B)
    /\ WF_vars(PipeDestripe)
    /\ WF_vars(PipeRelocate)
    /\ WF_vars(PipeLuts)
    /\ WF_vars(RunReturn)

----------------------------------------------------------------------------
\* Properties.

BothRoles == {"modisfile", "packetfile"}

\* the roles recorded for key k in the readiness registry reg
RolesOf(reg, k) == IF k \in DOMAIN reg THEN DOMAIN reg[k] ELSE {}

\* the pool tasks of scene key k that were dispatched and have not finished
InFlight(k) == {i \in 1..Len(tasks) : tasks[i].key = k /\ tasks[i].st \in {"queued", "running"}}

\* C1: in every reachable state of the runner, at most one run_terra_aqua_l0l1
\* execution that was dispatched and has not finished exists per scene key.
C1_AtMostOneInFlight == \A k \in Keys : Cardinality(InFlight(k)) <= 1

\* timer thread i has left the job registry part of reset_job_registry and has
\* not yet removed the readiness entry
MidEviction(i) == timers[i].pc \in {"chk_eos", "pop_eos"}

\* C2: eviction is atomic with respect to the control loop: the control loop
\* never enters ready2run for a key (having found it absent from the job
\* registry) while an eviction of that key has not yet removed the readiness
\* entry, so that the notification starts from an empty entry.
C2_EvictionAtomic ==
    \A i \in 1..Len(timers) :
        ~ /\ MidEviction(i)
          /\ pc = "r2r_ensure"
          /\ keyname = timers[i].key
          /\ keyname \in DOMAIN eos_files
          /\ eos_files[keyname] # EmptyDict

\* witness of C1's case: two tasks of one scene key in the pool at once
C1_TwoInFlight == \E k \in Keys : Cardinality(InFlight(k)) >= 2

\* the last call was function fn
Called(fn) == call.fn = fn
CalledNext(fn) == call'.fn = fn

\* C3: scene_processed_recently returns True if and only if the key is in the
\* registry with a value that is not null, and it leaves the registry as it was.
C3_SceneProcessedRecently ==
    [][CalledNext("scene_processed_recently") =>
          /\ call'.ret = (\E k \in DOMAIN jobs_dict :
                             k = call'.sceneid /\ jobs_dict[k] # NoneValue)
          /\ jobs_dict' = jobs_dict
          /\ eos_files' = eos_files]_vars

\* C3 witness: the function was applied to a key whose value is null
C3_NullValueSeen ==
    /\ Called("scene_processed_recently")
    /\ call.sceneid \in DOMAIN jobs_dict
    /\ jobs_dict[call.sceneid] = NoneValue
    /\ call.ret = FALSE

\* C4: a ready2run call whose file is not on disk returns False and leaves the
\* readiness registry exactly as it was (no key added, no role changed).
C4_MissingFileNoMutation ==
    [][(CalledNext("ready2run") /\ ~call'.exists) =>
          (call'.ret = FALSE /\ eos_files' = eos_files)]_vars

\* the roles a notification is matched to, read from its file name: the
\* primary modis file or the auxiliary packet file of EOS-Aqua
AquaRolesOf(m, exists) ==
    LET fname == Tail(m.uri)
        supported == \A i \in 1..Len(m.sensor.items) : m.sensor.items[i] \in {"modis", "gbad"}
    IN  IF ~exists \/ ~supported
        THEN {}
        ELSE {r \in BothRoles :
                 \/ r = "modisfile" /\ StartsWith(fname, MODISFILE_AQUA_PRFX)
                                    /\ EndsWith(fname, <<"001.PDS">>)
                 \/ r = "packetfile" /\ StartsWith(fname, PACKETFILE_AQUA_PRFX)
                                     /\ EndsWith(fname, <<"001.PDS">>)}

\* C5: for EOS-Aqua, as long as the notifications of a scene key have matched
\* only one of the two roles ready2run returns False, and the call that
\* completes the pair returns True, whichever role came first.
C5_AquaNeedsBothRoles ==
    [][(CalledNext("ready2run") /\ call'.message_data.platform_name = AQUA) =>
          LET k == call'.sceneid
              before == RolesOf(eos_files, k)
              now == AquaRolesOf(call'.message_data, call'.exists)
          IN  before # BothRoles => (call'.ret = (before \cup now = BothRoles))]_vars

\* C5 witness: the packet file completed a scene whose modis file came first
C5_PacketCompletes ==
    /\ Called("ready2run")
    /\ call.message_data.platform_name = AQUA
    /\ StartsWith(Tail(call.message_data.uri), PACKETFILE_AQUA_PRFX)
    /\ call.ret = TRUE

\* the platform/sensor combinations ready2run is meant to support: EOS-Terra
\* with modis, EOS-Aqua with sensors among modis and gbad
Supported(m) ==
    \/ m.platform_name = TERRA /\ m.sensor.items = <<"modis">>
    \/ /\ m.platform_name = AQUA
       /\ \A i \in 1..Len(m.sensor.items) : m.sensor.items[i] \in {"modis", "gbad"}

\* C6 as claimed: ready2run returns True only when both roles are recorded for
\* the scene key, and returns False for every notification of an unsupported
\* platform/sensor combination, whatever the registry holds for the key.
C6_UnsupportedAlwaysFalse ==
    [][CalledNext("ready2run") =>
          /\ call'.ret => RolesOf(eos_files', call'.sceneid) = BothRoles
          /\ ~Supported(call'.message_data) => call'.ret = FALSE]_vars

\* C6 as amended: ready2run returns True only when both roles are recorded for
\* the scene key; a notification of an unsupported platform/sensor combination
\* records nothing and is answered by what the registry already holds: True
\* when both roles were recorded before the call, False otherwise.
C6_UnsupportedReadsRegistry ==
    [][CalledNext("ready2run") =>
          /\ call'.ret => RolesOf(eos_files', call'.sceneid) = BothRoles
          /\ ~Supported(call'.message_data) =>
                /\ call'.ret = (RolesOf(eos_files, call'.sceneid) = BothRoles)
                /\ RolesOf(eos_files', call'.sceneid) = RolesOf(eos_files, call'.sceneid)]_vars

\* C6 witness: an unsupported notification answered True from a ready entry
C6_UnsupportedOnReadyEntry ==
    /\ Called("ready2run")
    /\ ~Supported(call.message_data)
    /\ call.ret = TRUE

\* a Terra notification of the modis sensor whose name has the primary prefix
\* and the suffix
TerraPrimary(m) ==
    /\ m.platform_name = TERRA
    /\ m.sensor = SensorStr("modis")
    /\ StartsWith(Tail(m.uri), MODISFILE_TERRA_PRFX)
    /\ EndsWith(Tail(m.uri), <<"001.PDS">>)

\* the entry a Terra primary file at path leaves
TerraEntry(path) == [r \in BothRoles |-> IF r = "modisfile" THEN path ELSE <<>>]

\* C7 as claimed: one Terra primary notification whose file is on disk makes
\* the scene ready, with the primary path and an empty auxiliary path, and
\* every later call for the scene key returns True.
C7_TerraReadyForEver ==
    [][(CalledNext("ready2run") /\ call'.message_data.platform_name = TERRA) =>
          LET k == call'.sceneid
              m == call'.message_data
          IN  /\ (TerraPrimary(m) /\ call'.exists) =>
                    (call'.ret = TRUE /\ eos_files'[k] = TerraEntry(m.uri))
              /\ RolesOf(eos_files, k) = BothRoles => call'.ret = TRUE]_vars

\* C7 as amended: the same, but of the later calls only those return True
\* whose notification is not a primary one with its file missing from disk;
\* such a call returns False and leaves the ready entry as it is.
C7_TerraReadyUnlessMissing ==
    [][(CalledNext("ready2run") /\ call'.message_data.platform_name = TERRA) =>
          LET k == call'.sceneid
              m == call'.message_data
          IN  /\ (TerraPrimary(m) /\ call'.exists) =>
                    (call'.ret = TRUE /\ eos_files'[k] = TerraEntry(m.uri))
              /\ RolesOf(eos_files, k) = BothRoles =>
                    /\ call'.ret = ~(TerraPrimary(m) /\ ~call'.exists)
                    /\ RolesOf(eos_files', k) = BothRoles]_vars

\* C7 witness: a later call with a name that is not the primary pattern is
\* answered True from the ready Terra entry
C7_LaterCallOnReadyTerra ==
    /\ Called("ready2run")
    /\ call.message_data.platform_name = TERRA
    /\ ~TerraPrimary(call.message_data)
    /\ call.ret = TRUE
    /\ eos_files[call.sceneid] \in {TerraEntry(p) : p \in Paths}

\* C8: between the creation of a readiness entry and its eviction the set of
\* roles recorded for the key never shrinks, whichever thread takes the step.
C8_RolesNeverShrink ==
    [][\A k \in DOMAIN eos_files \cap DOMAIN eos_files' :
          DOMAIN eos_files[k] \subseteq DOMAIN eos_files'[k]]_vars

\* C8 witness: the entry of an Aqua scene has grown to both roles
C8_AquaEntryGrown ==
    /\ pc = "r2r_ready"
    /\ msg.platform_name = AQUA
    /\ RolesOf(eos_files, keyname) = BothRoles

\* C9: while a scene key is in the job registry with a timestamp, the control
\* loop drops a notification for it before ready2run: its next step is the
\* rest of scene_processed_recently or the next listener_q.get(), and neither
\* registry, the pool nor the timers change.
C9_AdmittedKeyDropped ==
    [][(/\ pc \in {"chk_in", "chk_val"}
        /\ keyname \in DOMAIN jobs_dict
        /\ jobs_dict[keyname] # NoneValue
        /\ pc' # pc) =>
          /\ pc' = IF pc = "chk_in" THEN "chk_val" ELSE "get"
          /\ UNCHANGED <<jobs_dict, eos_files, tasks, timers>>]_vars

\* C9 witness: the control loop holds a notification for a registered scene
\* key and has found the key in the job registry
C9_NotificationForAdmittedKey ==
    /\ pc = "chk_val"
    /\ keyname \in DOMAIN jobs_dict
    /\ jobs_dict[keyname] # NoneValue

\* C10: reset_job_registry removes the key from both registries when present,
\* leaves every other key of both unchanged, and changes nothing when the key
\* is in neither (calling it again is harmless).
C10_ResetRemovesKeyOnly ==
    [][CalledNext("reset_job_registry") =>
          LET k == call'.sceneid
          IN  /\ jobs_dict' = [x \in DOMAIN jobs_dict \ {k} |-> jobs_dict[x]]
              /\ eos_files' = [x \in DOMAIN eos_files \ {k} |-> eos_files[x]]
              /\ (k \notin DOMAIN jobs_dict /\ k \notin DOMAIN eos_files) =>
                    (jobs_dict' = jobs_dict /\ eos_files' = eos_files)]_vars

\* C10 witness: the key was reset and other keys are still in both registries
C10_ResetKeepsOthers ==
    /\ Called("reset_job_registry")
    /\ call.sceneid \notin DOMAIN jobs_dict
    /\ call.sceneid \notin DOMAIN eos_files
    /\ \E k \in DOMAIN jobs_dict : k \in DOMAIN eos_files /\ eos_files[k] # EmptyDict

\* the timer threads that will still run objdict.pop(k) for scene key k
EvictionPending(k) == {i \in 1..Len(timers) : timers[i].key = k /\ timers[i].pc \in {"wait", "pop_jobs"}}

\* C11: every admission of a scene key starts one eviction timer for that key,
\* so that the key leaves the registries whatever the pipeline does: a key with
\* an admission timestamp in the job registry always has an eviction timer that
\* has not yet removed it, or the control loop is on its way from the admission
\* to the start of that timer.
C11_AdmittedKeyHasTimer ==
    \A k \in DOMAIN jobs_dict :
        jobs_dict[k].type = "datetime" =>
            \/ EvictionPending(k) # {}
            \/ pc \in {"dispatch", "start_timer"} /\ keyname = k

\* C11 case: an admitted key is left in the job registry with no timer to come
C11_AdmittedKeyStranded ==
    /\ pc = "crashed"
    /\ keyname \in DOMAIN jobs_dict
    /\ EvictionPending(keyname) = {}

\* the scene key of the pipeline's scene
SceneKey == KeyName(SceneMessage(scene.platform_name))

\* the first external process run was the level-1a stage and its return code
\* is neither 0 nor None
L1ARejected(st) == st # <<>> /\ st[1].stage = "l1a" /\ st[1].code \notin {Code(0), NoneValue}

\* C12: if the level-0 to 1A stage exits with a code that is neither 0 nor
\* null, run_terra_aqua_l0l1 returns without running a later stage and without
\* a message on the publish queue; no step of the pipeline changes a registry,
\* and the scene key leaves the job registry only by the pop of its timer.
C12_L1AFailureAborts ==
    [][/\ L1ARejected(stages') =>
            (ppc' = "aborted" /\ Len(stages') = 1 /\ publish_q' = <<>>)
       /\ ppc' # ppc => (jobs_dict' = jobs_dict /\ eos_files' = eos_files)
       /\ (SceneKey \in DOMAIN jobs_dict /\ SceneKey \notin DOMAIN jobs_dict') =>
            (timers[1].pc = "pop_jobs" /\ timers'[1].pc = "chk_eos")]_vars

\* C12 case: the 1A stage failed and the key is still registered, its timer
\* not yet fired
C12_FailedStillRegistered ==
    /\ L1ARejected(stages)
    /\ ppc = "aborted"
    /\ SceneKey \in DOMAIN jobs_dict
    /\ timers[1].pc = "wait"

\* the number of messages of a level on a queue
CountLevel(q, level) == Cardinality({i \in 1..Len(q) : q[i].level = level})

\* this step ran the level-1a stage and its return code was 0 or None
L1AAcceptedStep ==
    /\ ppc = "l1a"
    /\ stages' # stages
    /\ stages'[1].code \in {Code(0), NoneValue}

\* C13: a "1A" message is put on the publish queue if and only if the
\* level-1a stage exited with 0 or null and its output file was found in the
\* working directory and moved to its final path; when the file is missing
\* after an accepted exit nothing is published and the pipeline goes on to the
\* next stage.
C13_L1APublishedIffRelocated ==
    [][/\ (publish_q' # publish_q /\ Len(publish_q') > 0
             /\ publish_q'[Len(publish_q')].level = "1A")
          <=> (L1AAcceptedStep /\ retv("level1a_file") \in disk')
       /\ (L1AAcceptedStep /\ retv("level1a_file") \in disk') =>
             publish_q' = Append(publish_q,
                 [level |-> "1A", mtype |-> "file", files |-> <<retv("level1a_file")>>])
       /\ (L1AAcceptedStep /\ retv("level1a_file") \notin disk') =>
             (publish_q' = publish_q /\ ppc' \in {"gbad", "geo"})
       /\ CountLevel(publish_q', "1A") <= 1]_vars

\* C13 case: the level-1a stage exited with 0, left no file, and the pipeline
\* went on to the next stage with nothing published
C13_MissingL1AGoesOn ==
    /\ Len(stages) >= 2
    /\ stages[1] = [stage |-> "l1a", code |-> Code(0)]
    /\ retv("level1a_file") \notin disk
    /\ CountLevel(publish_q, "1A") = 0

\* this step ran the external process of a stage; its record is the last of stages'
StageStep(stage) == ppc = stage /\ stages' # stages

\* the return code of the process run by this step
StepCode == stages'[Len(stages')].code

\* the return code with which a stage ended in this run, None when it did not run
CodeOf(stage) ==
    IF \E i \in 1..Len(stages) : stages[i].stage = stage
    THEN stages[CHOOSE i \in 1..Len(stages) : stages[i].stage = stage].code
    ELSE NoneValue

\* C14 as claimed: when the level-1a file or the geolocation file is absent
\* after its stage ended (here: terminated with code 0), the pipeline aborts
\* and no notification is published for that stage or a later one.
C14_MissingOutputAborts ==
    /\ (CodeOf("l1a") = Code(0) /\ retv("level1a_file") \notin disk) =>
          (ppc = "aborted" /\ publish_q = <<>>)
    /\ (CodeOf("geo") = Code(0) /\ retv("geo_file") \notin disk) =>
          (ppc = "aborted" /\ CountLevel(publish_q, "1B") = 0)

\* C14 amended: a missing level-1a or geolocation file after an accepted exit
\* does not abort the pipeline: the step publishes nothing, lists nothing and
\* goes on to the next stage; every path that a published message lists was
\* relocated to its final place.
C14_MissingOutputSkipped ==
    [][/\ (StageStep("l1a") /\ StepCode \in {Code(0), NoneValue}
             /\ retv("level1a_file") \notin disk') =>
            (ppc' \in {"gbad", "geo"} /\ publish_q' = publish_q)
       /\ (StageStep("geo") /\ StepCode \in {Code(0), Code(1), NoneValue}
             /\ retv("geo_file") \notin disk') =>
            (ppc' = "l1b" /\ l1b_files' = <<>> /\ publish_q' = publish_q)
       /\ \A i \in 1..Len(publish_q') : \A j \in 1..Len(publish_q'[i].files) :
             publish_q'[i].files[j] \in disk']_vars

\* C14 case: both mandatory outputs were missing after exits with code 0 and
\* the run still finished with a 1B message
C14_FinishedWithoutOutputs ==
    /\ ppc = "finished"
    /\ CodeOf("l1a") = Code(0) /\ retv("level1a_file") \notin disk
    /\ CodeOf("geo") = Code(0) /\ retv("geo_file") \notin disk
    /\ CountLevel(publish_q, "1B") = 1

\* the positions in stages at which a stage was run
RunsOf(stage) == {i \in 1..Len(stages) : stages[i].stage = stage}

\* C15: the gbad stage runs only for EOS-Aqua, after the level-1a stage and
\* before geolocation; when its return code is not 0 the pipeline returns
\* before geolocation is started and no 1B message is published; for EOS-Terra
\* it is never run.
C15_GbadOnlyAquaBeforeGeo ==
    /\ scene.platform_name = TERRA => RunsOf("gbad") = {}
    /\ RunsOf("gbad") \subseteq {2}
    /\ RunsOf("gbad") # {} => (scene.platform_name = AQUA /\ stages[1].stage = "l1a")
    /\ (scene.platform_name = AQUA /\ RunsOf("geo") # {}) =>
          (RunsOf("geo") = {3} /\ stages[2] = [stage |-> "gbad", code |-> Code(0)])
    /\ (RunsOf("gbad") # {} /\ stages[2].code # Code(0)) =>
          (ppc = "aborted" /\ Len(stages) = 2 /\ CountLevel(publish_q, "1B") = 0)

\* C15 case: gbad had not terminated at poll() (return code None) and the
\* run of an Aqua scene is over before geolocation
C15_GbadNoneAborted ==
    /\ scene.platform_name = AQUA
    /\ Len(stages) = 2
    /\ stages[2] = [stage |-> "gbad", code |-> NoneValue]
    /\ ppc = "aborted"

\* C16: geolocation is successful exactly when its return code is 0, 1 or
\* null: then the pipeline continues to calibration; for every other code it
\* returns before the calibration stage and no 1B message is published.
C16_GeoAcceptsZeroOneNone ==
    [][/\ StageStep("geo") =>
            ppc' = IF StepCode \in {Code(0), Code(1), NoneValue} THEN "l1b" ELSE "aborted"
       /\ (\E i \in 1..Len(stages') :
              /\ stages'[i].stage = "geo"
              /\ stages'[i].code \notin {Code(0), Code(1), NoneValue}) =>
            /\ \A j \in 1..Len(stages') : stages'[j].stage \notin {"l1b", "destripe"}
            /\ CountLevel(publish_q', "1B") = 0
            /\ ppc' = "aborted"]_vars

\* C16 case: geolocation exited with 1 and the calibration stage was run
C16_GeoOneThenCalibration ==
    /\ CodeOf("geo") = Code(1)
    /\ RunsOf("geo") # {}
    /\ RunsOf("l1b") # {}

\* C17 as claimed: a calibration return code that is neither 0 nor null aborts
\* with no 1B message; otherwise each calibration output present in the working
\* directory is relocated, whatever the destriping stage does: once the run is
\* over no calibration output is left in the working directory.
C17_CalibrationOutputsRelocated ==
    /\ (RunsOf("l1b") # {} /\ CodeOf("l1b") \notin {Code(0), NoneValue}) =>
          (ppc = "aborted" /\ CountLevel(publish_q, "1B") = 0)
    /\ (RunsOf("l1b") # {} /\ CodeOf("l1b") = Code(0) /\ ppc \in {"aborted", "finished"}) =>
          \A k \in StageOutputs("l1b") :
              fname_orig(retv(k)) \in disk => retv(k) \in disk

\* the file of key k is at its final path and listed once in the list
Relocated(k, d, files) ==
    /\ retv(k) \in d
    /\ Cardinality({j \in 1..Len(files) : files[j] = retv(k)}) >= 1

\* C17 amended: a calibration return code that is neither 0 nor null aborts
\* with no 1B message; otherwise missing outputs do not abort and the pipeline
\* goes on to destriping or relocation; the relocation step, which comes after
\* destriping, moves each of the three outputs that is in the working directory
\* to its final path and skips each that is missing; a destriping return code
\* other than 0 aborts before that step and leaves the outputs where they are.
C17_RelocatedAfterDestriping ==
    [][/\ StageStep("l1b") =>
            ppc' = IF StepCode \notin {Code(0), NoneValue} THEN "aborted"
                   ELSE IF scene.apply_destriping THEN "destripe"
                   ELSE "relocate"
       /\ (StageStep("l1b") /\ StepCode \notin {Code(0), NoneValue}) =>
            CountLevel(publish_q', "1B") = 0
       /\ (ppc = "relocate" /\ ppc' = "luts") =>
            \A k \in StageOutputs("l1b") :
                IF fname_orig(retv(k)) \in disk
                THEN /\ Relocated(k, disk', l1b_files')
                     /\ scene.working_dir # level1b_home => fname_orig(retv(k)) \notin disk'
                ELSE ~Relocated(k, disk', l1b_files')
       /\ (StageStep("destripe") /\ StepCode # Code(0)) =>
            (ppc' = "aborted" /\ disk' = disk /\ publish_q' = publish_q)]_vars

\* C17 case: calibration exited with 0 leaving only the 500m file, which the
\* relocation step moved while the missing 1km file was skipped
C17_PartialOutputsRelocated ==
    /\ ppc = "finished"
    /\ CodeOf("l1b") = Code(0)
    /\ retv("mod02hkm_file") \in disk
    /\ retv("mod021km_file") \notin disk
    /\ CountLevel(publish_q, "1B") = 1

\* C18: destriping runs if and only if apply_destriping is set and the
\* calibration stage succeeded; when it runs and its return code is not 0 the
\* pipeline aborts and no 1B message is published; when the option is not set
\* the stage is skipped and the pipeline proceeds to relocation and publication.
C18_DestripingGated ==
    [][/\ (StageStep("l1b") /\ StepCode \in {Code(0), NoneValue}) =>
            ppc' = IF scene.apply_destriping THEN "destripe" ELSE "relocate"
       /\ StageStep("destripe") =>
            /\ scene.apply_destriping
            /\ stages[Len(stages)].stage = "l1b"
            /\ stages[Len(stages)].code \in {Code(0), NoneValue}
            /\ ppc' = IF StepCode = Code(0) THEN "relocate" ELSE "aborted"
            /\ publish_q' = publish_q
       /\ ppc' \in {"relocate", "luts", "finished"} =>
            (scene.apply_destriping <=>
                \E i \in 1..Len(stages') : stages'[i] = [stage |-> "destripe", code |-> Code(0)])
       /\ (\E i \in 1..Len(stages') :
              stages'[i].stage = "destripe" /\ stages'[i].code # Code(0)) =>
            (ppc' = "aborted" /\ CountLevel(publish_q', "1B") = 0)
       /\ (ppc = "relocate" /\ ppc' \notin {"relocate", "raised"}) =>
            (ppc' = "luts" /\ CountLevel(publish_q', "1B") = 1)]_vars

\* C18 case: destriping was run, had not terminated at poll() and the run is
\* over without a 1B message
C18_DestripingNoneAborted ==
    /\ scene.apply_destriping
    /\ stages # <<>>
    /\ stages[Len(stages)] = [stage |-> "destripe", code |-> NoneValue]
    /\ ppc = "aborted"
    /\ CountLevel(publish_q, "1B") = 0

\* the paths of a file list, as a set
PathsOf(files) == {files[j] : j \in 1..Len(files)}

\* the output paths of the 1B message that are at their final place in d
AtFinalPath(d) == {retv(FinalKeys[j]) : j \in 1..Len(FinalKeys)} \cap d

\* C19: a run in which every stage exits with an accepted code puts exactly
\* one "1B" message on the publish queue, and the file list of that message is
\* exactly the set of output paths (geolocation, 1km, 500m, 250m) relocated to
\* their final paths, each listed exactly once.
C19_OneBundleListsRelocated ==
    [][/\ (ppc = "relocate" /\ ppc' = "luts") =>
            /\ Len(publish_q') = Len(publish_q) + 1
            /\ publish_q'[Len(publish_q')].level = "1B"
            /\ PathsOf(publish_q'[Len(publish_q')].files) = AtFinalPath(disk')
            /\ Len(publish_q'[Len(publish_q')].files) = Cardinality(AtFinalPath(disk'))
       /\ ppc' = "finished" => CountLevel(publish_q', "1B") = 1]_vars

\* C19 case: the 1B message of a finished run lists the geolocation file twice
C19_GeoListedTwice ==
    /\ ppc = "finished"
    /\ \E i \in 1..Len(publish_q) :
          /\ publish_q[i].level = "1B"
          /\ Cardinality({j \in 1..Len(publish_q[i].files) :
                             publish_q[i].files[j] = retv("geo_file")}) = 2

\* C20: an exception raised inside run_terra_aqua_l0l1 ends only that worker
\* task: the step leaves the control loop where it is, both registries and the
\* timers as they are, and every other task of the pool untouched.
C20_ExceptionEndsOnlyTheTask ==
    [][\A i \in 1..Len(tasks) :
          (tasks[i].st = "running" /\ Len(tasks') = Len(tasks) /\ tasks'[i].st = "raised") =>
              /\ pc' = pc
              /\ msg' = msg
              /\ jobs_dict' = jobs_dict
              /\ eos_files' = eos_files
              /\ timers' = timers
              /\ \A j \in 1..Len(tasks) : j # i => tasks'[j] = tasks[j]]_vars

\* C20 case: a task has raised, a pipeline dispatched after it is running and
\* the control loop is back at listener_q.get()
C20_RaisedWhileOthersRun ==
    /\ \E i, j \in 1..Len(tasks) :
          i < j /\ tasks[i].st = "raised" /\ tasks[j].st = "running"
    /\ pc = "get"

\* C21: at any time at most PoolSize pipeline executions are running; a task
\* handed to the pool starts only when a worker process is free, and it is
\* handed over as a waiting task without the control loop leaving its loop,
\* which can admit a further scene while every worker process is busy.
C21_PoolBounded ==
    /\ [](Cardinality(Running) = PoolSize /\ Len(tasks) < MaxTasks /\ jobs_dict = EmptyDict
             => ENABLED PoolAdmit)
    /\ [][/\ Cardinality(Running') <= PoolSize
          /\ \A i \in 1..Len(tasks) :
                (tasks[i].st = "queued" /\ tasks'[i].st = "running")
                   => Cardinality(Running) < PoolSize
          /\ Len(tasks') > Len(tasks)
                => /\ tasks'[Len(tasks')].st = "queued"
                   /\ SubSeq(tasks', 1, Len(tasks)) = tasks
                   /\ pc' = "get"]_vars

\* every worker process is busy and two admitted scenes wait in the pool
C21_FullPoolScenesWaiting ==
    /\ Cardinality(Running) = PoolSize
    /\ Cardinality({i \in 1..Len(tasks) : tasks[i].st = "queued"}) = 2
    /\ pc = "get"

\* C22 (as amended): the freshness check runs at startup before any scene is
\* handled, and in a pipeline it runs only after the stages, once the 1B
\* message is published: a pipeline that is aborted by a stage never runs it.
C22_CheckAtStartupAndAfterStages ==
    \A w \in Workers :
       /\ upd[w].pc # "idle" => upd["startup"].fresh # "none" /\ upd["startup"].pc = "loop"
       /\ upd[w].fresh # "none" => upd[w].published
       /\ upd[w].pc = "aborted" => upd[w].fresh = "none"

\* a pipeline has run the check and the refresh after its stages
C22_PipelineCheckedAtItsEnd ==
    \E w \in Workers :
       /\ upd[w].pc = "finished"
       /\ upd[w].published
       /\ upd[w].fresh = "False"

\* C22 (as stated): the freshness check runs at startup before any scene is
\* handled, and a pipeline has run it when its first stage is started.
C22_CheckBeforeFirstStage ==
    \A w \in Workers :
       /\ upd[w].pc # "idle" => upd["startup"].fresh # "none" /\ upd["startup"].pc = "loop"
       /\ upd[w].pc = "stages" => upd[w].fresh # "none"

\* the name passes every test of the freshness check: it exists, is a link to
\* a timestamped file, its timestamp is parsed and is not older than thr_days
PassesAll(e, b, thr_days) ==
    /\ PathExists(e, b)
    /\ e.link[b].kind = "link"
    /\ e.link[b].to.ok
    /\ e.link[b].to.age <= thr_days

\* C23: check_utcpole_and_leapsec_files returns False, without raising, when
\* either name is absent, is no link to a timestamped file, has a timestamp
\* that cannot be parsed or is too old, and True only if both names pass.
C23_CheckReturnsValue ==
    [][\A p \in Procs :
          (upd[p].pc = "check" /\ upd'[p].pc # "check")
             => upd'[p].fresh =
                   (IF \A n \in 1..Len(NAVIGATION_HELPER_FILES) :
                          PassesAll(etc, NAVIGATION_HELPER_FILES[n], days_between_url_download)
                    THEN "True" ELSE "False")]_vars

\* the check has raised ValueError in its caller
C23_CheckRaised ==
    \E p \in Procs : upd[p].fresh = "ValueError" /\ upd[p].pc = "raised"

\* C24: during and after the refresh each of the two names that resolved to
\* a complete file still resolves to a complete file.
C24_LinksStayComplete ==
    [][\A n \in 1..Len(NAVIGATION_HELPER_FILES) :
          ResolvesComplete(etc, NAVIGATION_HELPER_FILES[n])
             => ResolvesComplete(etc', NAVIGATION_HELPER_FILES[n])]_vars

\* every caller is at rest after a refresh, and a name whose former target
\* is still in the directory as a complete file has been left absent
C24_LinkLostAfterRefresh ==
    /\ \A q \in Procs : upd[q].pc \in {"idle", "loop", "finished", "raised", "aborted"}
    /\ \E p \in Procs : upd[p].fresh = "False"
    /\ \E f \in DOMAIN etc.dat :
          /\ f[2] # NowStamp
          /\ etc.dat[f] = "complete"
          /\ etc.link[f[1]].kind = "absent"

\* C25: every failure of the network or of the file system during the
\* refresh is caught: update_utcpole_and_leapsec_files returns and its caller
\* goes on.
C25_RefreshNeverRaises ==
    \A p \in Procs : upd[p].fresh = "False" => upd[p].pc # "raised"

\* the refresh has raised at startup: the runner never reaches its loop
C25_StartupRefreshRaised ==
    /\ upd["startup"].fresh = "False"
    /\ upd["startup"].pc = "raised"

\* the items of an option list: nothing when the option is not set
OptItems(v) == IF v.type = "list" THEN v.val ELSE <<>>

\* C26: called without both keywords (none, or only one of them),
\* get_geo_command_line_list returns the script, the Terra option list
\* (nothing if unset), "-o" + the base name of the geolocation file and the
\* level-1A path, in that order.
C26_TerraCommandLine ==
    [][(CalledNext("get_geo_command_line_list")
          /\ {"attitude", "ephemeris"} \ DOMAIN call'.kwargs # {})
         => call'.ret = <<call'.options.modis_geo_script>>
                           \o OptItems(call'.options.modis_geo_options_terra)
                           \o <<<<"-o", call'.mod03_file[Len(call'.mod03_file)]>>,
                                call'.mod01_file>>]_vars

\* a call with the attitude keyword alone, different option lists for the
\* two platforms and a geolocation file in a directory
C26_OnlyAttitudeGiven ==
    /\ Called("get_geo_command_line_list")
    /\ DOMAIN call.kwargs = {"attitude"}
    /\ Len(OptItems(call.options.modis_geo_options_terra)) = 1
    /\ Len(OptItems(call.options.modis_geo_options_aqua)) = 2
    /\ Len(call.mod03_file) = 2
    /\ Len(call.ret) = 4

\* C27: called with both keywords, get_geo_command_line_list returns the
\* script, the Aqua option list (nothing if unset), "--att1=" + attitude,
\* "--eph1=" + ephemeris, "-o" + the base name of the geolocation file and
\* the level-1A path, in that order, and leaves the options map as it was.
C27_AquaCommandLine ==
    [][(CalledNext("get_geo_command_line_list")
          /\ {"attitude", "ephemeris"} \subseteq DOMAIN call'.kwargs)
         => /\ call'.ret = <<call'.options.modis_geo_script>>
                              \o OptItems(call'.options.modis_geo_options_aqua)
                              \o <<<<"--att1=">> \o call'.kwargs["attitude"],
                                   <<"--eph1=">> \o call'.kwargs["ephemeris"],
                                   <<"-o", call'.mod03_file[Len(call'.mod03_file)]>>,
                                   call'.mod01_file>>
            /\ call'.options_after = call'.options]_vars

\* a call with both keywords and a set Aqua option list
C27_BothKeywordsGiven ==
    /\ Called("get_geo_command_line_list")
    /\ DOMAIN call.kwargs = {"attitude", "ephemeris"}
    /\ call.kwargs["attitude"] # call.kwargs["ephemeris"]
    /\ Len(OptItems(call.options.modis_geo_options_aqua)) = 2
    /\ call.options.modis_geo_options_terra = NoneValue
    /\ Len(call.ret) = 7

\* C28: check_message accepts a notification only if its type is file,
\* collection or dataset, the host of its uri is empty or resolves to a
\* local address, its platform is an EOS satellite and each of its sensors
\* is modis or gbad; no call changes a registry.
C28_AcceptedOnlyIfRelevant ==
    [][CalledNext("check_message")
         => /\ eos_files' = eos_files /\ jobs_dict' = jobs_dict /\ msg' = msg
            /\ call'.ret = "True"
                  => LET m == call'.message
                     IN  /\ m.type \in {"file", "collection", "dataset"}
                         /\ "uri" \in DOMAIN m.data
                         /\ \/ m.data["uri"].netloc = ""
                            \/ gethostbyname(m.data["uri"].netloc) \in get_local_ips
                         /\ "platform_name" \in DOMAIN m.data
                         /\ m.data["platform_name"] \in {TERRA, AQUA}
                         /\ "sensor" \in DOMAIN m.data
                         /\ \A n \in 1..Len(AsList(m.data["sensor"])) :
                               AsList(m.data["sensor"])[n] \in {"modis", "gbad"}]_vars

\* a dataset notification of this host with a list of sensors is accepted
C28_LocalDatasetAccepted ==
    /\ Called("check_message")
    /\ call.ret = "True"
    /\ call.message.type = "dataset"
    /\ call.message.data["uri"].netloc = "localhost"
    /\ call.message.data["sensor"].islist

\* C29: for a notification that lacks the platform name, the orbit number,
\* the start time, the uri or the sensor, check_message returns False
\* without raising and no registry is changed.
C29_MissingFieldReturnsFalse ==
    [][(CalledNext("check_message") /\ DataKeys \ DOMAIN call'.message.data # {})
         => /\ call'.ret = "False"
            /\ eos_files' = eos_files /\ jobs_dict' = jobs_dict /\ msg' = msg]_vars

\* check_message has raised KeyError for a file notification without uri
C29_MissingUriRaised ==
    /\ Called("check_message")
    /\ call.ret = "KeyError"
    /\ call.message.type = "file"
    /\ DOMAIN call.message.data = DataKeys \ {"uri"}

\* the registries of the control loop
registries == <<eos_files, jobs_dict>>

\* C30: no step of the pipeline, whatever its outcome, changes a registry or
\* a timer; no step of the eviction timer changes the state of the pipeline;
\* the registries change only in a step of the timer, and a pipeline whose
\* key is evicted can still take its next step.
C30_EvictionAndPipelineApart ==
    /\ [](ppc \in TryPositions /\ SceneKey \notin DOMAIN jobs_dict
             => ENABLED (PipeL1A \/ PipeGbad \/ PipeGeo \/ PipeL1B \/ PipeDestripe
                            \/ PipeRelocate \/ PipeLuts))
    /\ [][/\ pipe_vars' # pipe_vars => registries' = registries /\ timers' = timers
          /\ timers' # timers => pipe_vars' = pipe_vars
          /\ registries' # registries => timers' # timers]_vars

\* the key of the scene is evicted from both registries while the pipeline
\* is between two stages, with the stages run before as they were
C30_EvictedMidPipeline ==
    /\ ppc = "l1b"
    /\ Len(stages) >= 2
    /\ SceneKey \notin DOMAIN jobs_dict
    /\ SceneKey \notin DOMAIN eos_files
    /\ timers[1].pc = "done"

\* C35: in one run at most one "1A" and at most one "1B" message are put on
\* the publish queue, the 1A message is put before the 1B message, messages
\* are only appended, and no 1B message is put by a run that returned at a
\* failing stage.
C35_OneMessagePerLevelInOrder ==
    [][/\ CountLevel(publish_q', "1A") <= 1
       /\ CountLevel(publish_q', "1B") <= 1
       /\ \A i, j \in 1..Len(publish_q') :
             (publish_q'[i].level = "1A" /\ publish_q'[j].level = "1B") => i < j
       /\ publish_q' # publish_q => publish_q' = Append(publish_q, publish_q'[Len(publish_q')])
       /\ ppc' = "aborted" => CountLevel(publish_q', "1B") = 0]_vars

\* a run is over with its 1A message and then its 1B message on the queue
C35_BothMessagesPublished ==
    /\ ppc = "finished"
    /\ Len(publish_q) = 2
    /\ publish_q[1].level = "1A"
    /\ publish_q[2].level = "1B"

\* the fixed order of the external stages
StageOrder == <<"l1a", "gbad", "geo", "l1b", "destripe">>
StageRank(stage) == CHOOSE n \in 1..Len(StageOrder) : StageOrder[n] = stage

\* C31: within one run the external stages start in the order level-1A,
\* gbad (Aqua only), geolocation, calibration, destriping (if enabled), and
\* a stage is started only when the process of the stage before it had
\* terminated and given its exit code: no two processes of a scene run at
\* the same time.
C31_StagesInOrderOneAtATime ==
    /\ \A i, j \in 1..Len(stages) :
          i < j => StageRank(stages[i].stage) < StageRank(stages[j].stage)
    /\ RunsOf("gbad") # {} => scene.platform_name = AQUA
    /\ RunsOf("destripe") # {} => destripe_on
    /\ \A i \in 1..(Len(stages) - 1) : stages[i].code # NoneValue

\* the level-1A process had not terminated at poll() and the geolocation
\* process was run next to it
C31_StageStartedBesideRunningProcess ==
    /\ Len(stages) >= 2
    /\ stages[1] = [stage |-> "l1a", code |-> NoneValue]
    /\ stages[2].stage = "geo"

\* the positions at which the run waits for the output of an external process
StagePositions == {"l1a", "gbad", "geo", "l1b", "destripe"}

Unscheduled(k) ==
    /\ \A i \in 1..Len(timers) : timers[i].key = k => timers[i].pc \in {"done", "dead"}
    /\ ~(pc \in {"admit", "dispatch", "start_timer"} /\ keyname = k)

\* C33: a readiness entry is removed only by eosfiles.pop of a timer thread
\* for its key; a timer is started only for the key the control loop has just
\* admitted, and a key is admitted only when ready2run found it ready; so an
\* entry for which no eviction is scheduled stays in the registry, with no
\* eviction scheduled, as long as it does not become ready.
C33_UnreadyEntryStays ==
    [][/\ \A k \in DOMAIN eos_files \ DOMAIN eos_files' :
             \E i \in 1..Len(timers) :
                 /\ timers[i].key = k
                 /\ timers[i].pc = "pop_eos"
                 /\ timers'[i].pc = "done"
       /\ timers' # timers /\ Len(timers') # Len(timers) =>
             /\ pc = "start_timer"
             /\ timers' = Append(timers, [key |-> keyname, pc |-> "wait"])
       /\ pc' = "start_timer" /\ pc # "start_timer" => pc = "dispatch" /\ msg' = msg
       /\ pc' = "dispatch" /\ pc # "dispatch" =>
             /\ pc = "admit"
             /\ msg' = msg
             /\ jobs_dict'[keyname].type = "datetime"
       /\ pc' = "admit" /\ pc # "admit" =>
             /\ pc = "r2r_ready"
             /\ msg' = msg
             /\ R2RReady(eos_files, keyname)
       /\ \A k \in DOMAIN eos_files :
             Unscheduled(k) =>
                 /\ k \in DOMAIN eos_files'
                 /\ Unscheduled(k)' \/ R2RReady(eos_files, k)]_vars

\* C33 witness: the entry of an Aqua scene holds one of the two files and no
\* eviction is scheduled for it, while another scene key has been admitted and
\* evicted
C33_HalfAquaEntryLeftBehind ==
    \E k \in DOMAIN eos_files :
        /\ k[1] = AQUA
        /\ Cardinality(DOMAIN eos_files[k]) = 1
        /\ Unscheduled(k)
        /\ pc = "get"
        /\ \E i \in 1..Len(timers) : timers[i].key # k /\ timers[i].pc = "done"

\* C34: the iteration of the control loop that sets jobs_dict[keyname] goes on
\* to read eos_files[keyname], to send exactly one task with those two paths
\* to the pool and to start exactly one timer for the key, whatever the timer
\* threads of earlier admissions do in between; it never ends on a KeyError.
C34_AdmissionDispatchesOnce ==
    [][/\ pc = "admit" /\ pc' # pc => pc' = "dispatch" /\ msg' = msg
       /\ pc = "dispatch" /\ pc' # pc =>
             /\ pc' = "start_timer"
             /\ msg' = msg
             /\ keyname \in DOMAIN eos_files
             /\ Len(tasks') = Len(tasks) + 1
             /\ tasks'[Len(tasks')].key = keyname
             /\ tasks'[Len(tasks')].modisfilename = eos_files[keyname]["modisfile"]
             /\ tasks'[Len(tasks')].packetfilename = eos_files[keyname]["packetfile"]
             /\ timers' = timers
       /\ pc = "start_timer" /\ pc' # pc =>
             /\ pc' = "get"
             /\ timers' = Append(timers, [key |-> keyname, pc |-> "wait"])
             /\ tasks' = tasks
       /\ Len(tasks') # Len(tasks) => pc = "dispatch"
       /\ Len(timers') # Len(timers) => pc = "start_timer"]_vars

\* C34 case: the control loop has ended on the KeyError of eos_files[keyname]
\* for the key it had just admitted: the timestamp is in the job registry, the
\* readiness entry has gone and no task carries that timestamp
C34_AdmittedKeyLostItsEntry ==
    /\ pc = "crashed"
    /\ keyname \in DOMAIN jobs_dict
    /\ jobs_dict[keyname].type = "datetime"
    /\ keyname \notin DOMAIN eos_files
    /\ \A i \in 1..Len(tasks) : tasks[i].job_id # jobs_dict[keyname]
    /\ \E i \in 1..Len(timers) : timers[i].key = keyname /\ timers[i].pc = "done"

\* an EOS-Terra notification the listener puts on the queue, with the sensor
\* given as 'modis' or as ['modis'], whose file name has the Terra primary
\* prefix and suffix
AcceptedTerraPrimary(m) ==
    /\ ListenerAccepts(m)
    /\ m.platform_name = TERRA
    /\ m.sensor \in {SensorStr("modis"), SensorList(<<"modis">>)}
    /\ TerraMatch(PathSplit(m.uri)[2])

\* C36: the listener and ready2run agree on Terra: ready2run records every
\* accepted Terra primary notification whose file is on disk and returns True
\* for it, whether the sensor is the string or the list.
C36_AcceptedTerraRecorded ==
    [][(/\ CalledNext("ready2run")
        /\ AcceptedTerraPrimary(call'.message_data)
        /\ call'.exists) =>
          /\ call'.ret = TRUE
          /\ RolesOf(eos_files', call'.sceneid) = BothRoles
          /\ eos_files'[call'.sceneid]["modisfile"] = call'.message_data.uri]_vars

\* C36 case: ready2run has answered False to an accepted Terra primary
\* notification with sensor ['modis'] whose file is on disk, and has left the
\* entry of the scene empty
C36_ListSensorTerraUnrecorded ==
    /\ Called("ready2run")
    /\ AcceptedTerraPrimary(call.message_data)
    /\ call.message_data.sensor = SensorList(<<"modis">>)
    /\ call.exists
    /\ call.ret = FALSE
    /\ eos_files[call.sceneid] = EmptyDict

\* the items of list l that are not the empty string, in order
NonEmptyItems(l) == SelectSeq(l, LAMBDA item : item # <<>>)

\* C37: for a subscribe_topics string, get_config_yaml returns the list of the
\* non-empty items between the commas, in order, and no empty string, however
\* the commas stand in the string.
C37_TopicsWithoutEmptyItems ==
    (Called("get_config_yaml") /\ call.value.type = "str") =>
        /\ call.ret = NonEmptyItems(split(call.value.val))
        /\ \A i \in 1..Len(call.ret) : call.ret[i] # <<>>

\* C37 case: a string with a topic followed by two commas has left an empty
\* string in the list
C37_EmptyTopicKept ==
    /\ Called("get_config_yaml")
    /\ call.value = [type |-> "str", val |-> <<"a", ",", ",">>]
    /\ call.ret = <<<<"a">>, <<>>>>

====
